---- MODULE Spec2Model ----
(***************************************************************************)
(* Tree-walking evaluator of the Monkey interpreter (monkey-language-ts),  *)
(* with its Environment, runtime objects, built-ins, and the two drivers   *)
(* that call it: runFile (one program, one fresh Environment) and the REPL *)
(* (one Environment shared by all input lines).  The Lexer and the Parser  *)
(* are modelled as functions of the input text and run by two callers of   *)
(* their own: one that calls getNextToken() repeatedly on a text, one that *)
(* calls parseProgram() on a text, prints the Program with print() and     *)
(* parses what was printed again.                                          *)
(*                                                                         *)
(* The evaluator is a set of mutually recursive functions in the source.   *)
(* Here the host call stack is explicit: `stack` holds one frame per       *)
(* activation that is waiting for a nested evaluate() call, `ctl` is what  *)
(* the machine does next (evaluate a node in an environment, or hand a     *)
(* returned object to the frame on top).  One action models one case of    *)
(* the switch in evaluate up to its first nested call, or the code that    *)
(* runs when a nested call returns.  `return evaluate(...)` in tail        *)
(* position keeps no frame.                                                *)
(*                                                                         *)
(* The JavaScript heap is explicit: Environment objects live in the        *)
(* sequence `heap`, an MFunction holds the index of its defining           *)
(* Environment.                                                            *)
(*                                                                         *)
(* JavaScript numbers are modelled as exact rationals n/d (d > 0, lowest   *)
(* terms): `/` is the host's numeric division, which is exact for the      *)
(* quotients within the bounds below whenever the quotient is whole.       *)
(* Division by zero (Infinity, NaN) is outside the programs checked.       *)
(* A JavaScript `undefined` is the value Undefined; a host exception       *)
(* (TypeError on a property access of undefined, RangeError on call-stack  *)
(* exhaustion) unwinds the whole stack up to the driver's try/catch.       *)
(***************************************************************************)
EXTENDS Integers, Sequences, FiniteSets, TLC

(***************************************************************************)
(* Bounds                                                                  *)
(***************************************************************************)
\* nested user-function calls the host stack allows before RangeError
MaxCallDepth == 3
\* input lines of one REPL session
MaxLines == 3
\* integer literals of the generated arithmetic programs: -MaxInt..MaxInt
MaxInt == 4
\* calls of getNextToken on one Lexer
MaxCalls == 24
\* binary operators in one generated expression text
MaxOperators == 3
\* pairs in one generated hash literal text
MaxPairs == 2
\* times a text is parsed and printed, each text after the first being the
\* one printed before
MaxRounds == 2

VARIABLES
  driver,  \* "runFile" | "repl": which entry point runs the evaluator;
           \* "lexer" | "parser": a caller of the Lexer or the Parser alone
  pc,      \* position of the driver
  input,   \* index of the program (runFile) or of the line (REPL) being run;
           \* the text given to the Lexer or the Parser
  lines,   \* number of lines the REPL has read
  heap,    \* the Environment objects allocated so far; heap[1] is the driver's
  arrays,  \* the `elements` of the MArray objects allocated so far
  ctl,     \* what the evaluator does next
  stack,   \* activations waiting for a nested evaluate(); the top is last
  out,     \* what the driver got from the last evaluation
  lexer,   \* the Lexer object of the "lexer" driver
  tokens,  \* its calls of getNextToken so far: the whitespace each skipped
           \* and the token it returned
  parser,  \* the Parser object of the "parser" driver
  parsed,  \* what parseProgram() gave
  printed  \* what print() gave for each Program parsed so far

vars ==
  <<driver, pc, input, lines, heap, arrays, ctl, stack, out, lexer, tokens, parser, parsed,
    printed>>

(***************************************************************************)
(* JavaScript numbers (exact rationals in lowest terms)                    *)
(***************************************************************************)
Abs(i) == IF i < 0 THEN -i ELSE i

RECURSIVE GCD(_, _)
GCD(a, b) == IF b = 0 THEN a ELSE GCD(b, a % b)

Num(n, d) ==
  LET s == IF d < 0 THEN -1 ELSE 1
      g == GCD(Abs(n), Abs(d))
  IN  [n |-> (s * n) \div g, d |-> (s * d) \div g]

Whole(i) == [n |-> i, d |-> 1]

NumAdd(a, b) == Num(a.n * b.d + b.n * a.d, a.d * b.d)
NumSub(a, b) == Num(a.n * b.d - b.n * a.d, a.d * b.d)
NumMul(a, b) == Num(a.n * b.n, a.d * b.d)
\* host numeric division; defined for b # 0 only
NumDiv(a, b) == Num(a.n * b.d, a.d * b.n)
NumNeg(a) == [n |-> -a.n, d |-> a.d]
NumLt(a, b) == a.n * b.d < b.n * a.d
NumEq(a, b) == a.n = b.n /\ a.d = b.d
IsWhole(a) == a.d = 1

\* Math.trunc: the whole-number quotient, rounded toward zero
Trunc(a) == IF a.n >= 0 THEN a.n \div a.d ELSE -((-a.n) \div a.d)

\* Number.prototype.toFixed(0): nearest integer, ties away from zero
ToFixed0(a) ==
  LET m == Abs(a.n)
      r == (2 * m + a.d) \div (2 * a.d)
  IN  IF a.n < 0 THEN "-" \o ToString(r) ELSE ToString(r)

(***************************************************************************)
(* Runtime objects (object.ts, error.ts)                                   *)
(***************************************************************************)
Integer(v) == [type |-> "Integer", value |-> v]
MBoolean(b) == [type |-> "MBoolean", value |-> b]
MString(s) == [type |-> "MString", value |-> s]
\* an MArray object is the reference ref; its `elements` field lives in arrays
MArray(ref) == [type |-> "MArray", ref |-> ref]
elementsOf(array) == arrays[array.ref]
\* new MArray(items): the array storage with the new object's elements appended;
\* the new object's reference is Len of the returned storage
NewMArray(a, items) == Append(a, items)
Hash(pairs) == [type |-> "Hash", pairs |-> pairs]
ReturnValue(v) == [type |-> "ReturnValue", value |-> v]
Builtin(name) == [type |-> "Builtin", fn |-> name]

\* MFunction keeps a reference to (the heap index of) its defining Environment
MFunction(parameters, body, env) ==
  [type |-> "MFunction", parameters |-> parameters, body |-> body, env |-> env]

MTRUE == MBoolean(TRUE)
MFALSE == MBoolean(FALSE)
NULL == [type |-> "Null"]

\* JavaScript `undefined`: not an MObject, but a value the code can produce
Undefined == [type |-> "undefined"]

EvaluationErrorNames ==
  {"TypeMismatchError", "UnknownOperatorError", "IdentifierNotFoundError",
   "IndexOperatorNotSupported", "InvalidHashKeyError", "NotAFunctionError",
   "ArgumentNotSupportedError", "ArgumentWrongNumberError"}

EvaluationError(name, message) == [type |-> name, message |-> message]

\* a host exception in flight
Throw(name) == [type |-> "THROWN", name |-> name]
Thrown(v) == v.type = "THROWN"

(***************************************************************************)
(* AST nodes (ast.ts).  A HashLiteral's Map<Expression, Expression> is the *)
(* sequence of its [key, value] entries in insertion order; the parser     *)
(* creates a new key object per pair, so no two entries collide.           *)
(***************************************************************************)
Program(statements) == [type |-> "Program", statements |-> statements]
BlockStatement(statements) == [type |-> "BlockStatement", statements |-> statements]
ExpressionStatement(expression) ==
  [type |-> "ExpressionStatement", expression |-> expression]
LetStatement(name, value) == [type |-> "LetStatement", name |-> name, value |-> value]
ReturnStatement(returnValue) ==
  [type |-> "ReturnStatement", returnValue |-> returnValue]
ArrayLiteral(elements) == [type |-> "ArrayLiteral", elements |-> elements]
BooleanLiteral(value) == [type |-> "BooleanLiteral", value |-> value]
CallExpression(function, arguments) ==
  [type |-> "CallExpression", function |-> function, arguments |-> arguments]
FunctionLiteral(parameters, body) ==
  [type |-> "FunctionLiteral", parameters |-> parameters, body |-> body]
HashLiteral(pairs) == [type |-> "HashLiteral", pairs |-> pairs]
Identifier(value) == [type |-> "Identifier", value |-> value]
\* alternative is a BlockStatement or NoAlternative (JavaScript null)
NoAlternative == [type |-> "null"]
IfExpression(condition, consequence, alternative) ==
  [type |-> "IfExpression", condition |-> condition,
   consequence |-> consequence, alternative |-> alternative]
IndexExpression(left, index) == [type |-> "IndexExpression", left |-> left, index |-> index]
InfixExpression(operator, left, right) ==
  [type |-> "InfixExpression", operator |-> operator, left |-> left, right |-> right]
IntegerLiteral(value) == [type |-> "IntegerLiteral", value |-> value]
PrefixExpression(operator, right) ==
  [type |-> "PrefixExpression", operator |-> operator, right |-> right]
StringLiteral(value) == [type |-> "StringLiteral", value |-> value]

(***************************************************************************)
(* JavaScript strings as results: JsString(s), or Undefined                *)
(***************************************************************************)
JsString(s) == [type |-> "string", value |-> s]

\* `${x}` in a template literal
Template(x) == IF x.type = "undefined" THEN "undefined" ELSE x.value

\* Array.prototype.join: undefined elements are joined as the empty string
RECURSIVE Join(_, _)
Join(strs, sep) ==
  IF Len(strs) = 0 THEN ""
  ELSE LET h == IF strs[1].type = "undefined" THEN "" ELSE strs[1].value
       IN  IF Len(strs) = 1 THEN h ELSE h \o sep \o Join(Tail(strs), sep)

(***************************************************************************)
(* Lexer (lexer/token.ts, lexer/lexer.ts).  An input text is the sequence  *)
(* of its characters, each a one-character string; NUL stands for the      *)
(* character "\0".  A Lexer object is the record of its fields; a token's  *)
(* literal is the sequence of its characters.                              *)
(***************************************************************************)
TokenType ==
  [Illegal |-> "ILLEGAL", Eof |-> "EOF", Ident |-> "IDENT", Int |-> "INT",
   String |-> "STRING", Assign |-> "=", Plus |-> "+", Minus |-> "-", Bang |-> "!",
   Asterisk |-> "*", Slash |-> "/", LessThan |-> "<", GreaterThan |-> ">",
   Equal |-> "==", NotEqual |-> "!=", Comma |-> ",", Colon |-> ":",
   Semicolon |-> ";", LParen |-> "(", RParen |-> ")", LBrace |-> "{",
   RBrace |-> "}", LBracket |-> "[", RBracket |-> "]", Function |-> "FUNCTION",
   Let |-> "LET", True |-> "TRUE", False |-> "FALSE", If |-> "IF", Else |-> "ELSE",
   Return |-> "RETURN"]

\* a string, held as the sequence of its characters, as a string value
RECURSIVE Str(_)
Str(chars) == IF Len(chars) = 0 THEN "" ELSE chars[1] \o Str(Tail(chars))

keywords ==
  [fn |-> TokenType.Function, let |-> TokenType.Let, true |-> TokenType.True,
   false |-> TokenType.False, if |-> TokenType.If, else |-> TokenType.Else,
   return |-> TokenType.Return]

\* the property names made of letters and underscores that the object literal
\* `keywords` inherits from Object.prototype
InheritedKeys ==
  {"constructor", "toString", "toLocaleString", "valueOf", "hasOwnProperty",
   "isPrototypeOf", "propertyIsEnumerable", "__proto__", "__defineGetter__",
   "__defineSetter__", "__lookupGetter__", "__lookupSetter__"}

\* keywords[ident] ?? TokenType.Ident: an inherited property is not nullish,
\* so it is returned in place of a TokenType
lookupIdent(ident) ==
  IF Str(ident) \in DOMAIN keywords THEN keywords[Str(ident)]
  ELSE IF Str(ident) \in InheritedKeys THEN "Object.prototype." \o Str(ident)
  ELSE TokenType.Ident

NUL == "NUL"
Quote == "\""

newToken(tokenType, literal) == [type |-> tokenType, literal |-> literal]

Letters ==
  {"a", "b", "c", "d", "e", "f", "g", "h", "i", "j", "k", "l", "m", "n", "o", "p", "q",
   "r", "s", "t", "u", "v", "w", "x", "y", "z", "A", "B", "C", "D", "E", "F", "G", "H",
   "I", "J", "K", "L", "M", "N", "O", "P", "Q", "R", "S", "T", "U", "V", "W", "X", "Y",
   "Z"}
Digits == <<"0", "1", "2", "3", "4", "5", "6", "7", "8", "9">>

isLetter(ch) == ch \in Letters \/ ch = "_"
isDigit(ch) == \E d \in 1..Len(Digits) : Digits[d] = ch

\* text.substring(start, end): an index past the end counts as text.length,
\* and the two are swapped when start > end
substring(text, start, end) ==
  LET Clamp(i) == IF i > Len(text) THEN Len(text) ELSE IF i < 0 THEN 0 ELSE i
      from == IF Clamp(start) <= Clamp(end) THEN Clamp(start) ELSE Clamp(end)
      to == IF Clamp(start) <= Clamp(end) THEN Clamp(end) ELSE Clamp(start)
  IN  SubSeq(text, from + 1, to)

\* text[i], undefined past the end (read only by a readChar that tests wrongly)
CharAt(text, i) == IF i < Len(text) THEN text[i + 1] ELSE "undefined"

\* a readChar that tests the end of the input one position late
readCharLate(l) ==
  [l EXCEPT !.ch = IF l.readPosition > Len(l.input) THEN NUL
                   ELSE CharAt(l.input, l.readPosition),
            !.position = l.readPosition,
            !.readPosition = l.readPosition + 1]

readChar(l) ==
  [l EXCEPT !.ch = IF l.readPosition >= Len(l.input) THEN NUL
                   ELSE l.input[l.readPosition + 1],
            !.position = l.readPosition,
            !.readPosition = l.readPosition + 1]

peekChar(l) ==
  IF l.readPosition >= Len(l.input) THEN NUL ELSE l.input[l.readPosition + 1]

\* new Lexer(input)
NewLexer(text) ==
  readChar([input |-> text, position |-> 0, readPosition |-> 0, ch |-> ""])

RECURSIVE skipWhitespace(_)
skipWhitespace(l) ==
  IF l.ch \in {" ", "\t", "\n", "\r"} THEN skipWhitespace(readChar(l)) ELSE l

\* the loops of readIdentifier, readNumber and readString: the Lexer after them
RECURSIVE whileLetter(_)
whileLetter(l) == IF isLetter(l.ch) THEN whileLetter(readChar(l)) ELSE l

RECURSIVE whileDigit(_)
whileDigit(l) == IF isDigit(l.ch) THEN whileDigit(readChar(l)) ELSE l

RECURSIVE untilQuote(_)
untilQuote(l) ==
  LET next == readChar(l)
  IN  IF next.ch = Quote \/ next.ch = NUL THEN next ELSE untilQuote(next)

\* each gives the string it returns and the Lexer it leaves
readIdentifier(l) ==
  LET after == whileLetter(l)
  IN  [value |-> substring(l.input, l.position, after.position), lexer |-> after]

readNumber(l) ==
  LET after == whileDigit(l)
  IN  [value |-> substring(l.input, l.position, after.position), lexer |-> after]

\* a readString that keeps the quotation marks it has read in the literal
readStringQuoted(l) ==
  LET after == untilQuote(l)
  IN  [value |-> substring(l.input, l.position,
                           IF after.ch = Quote THEN after.position + 1 ELSE after.position),
       lexer |-> after]

readString(l) ==
  LET after == untilQuote(l)
  IN  [value |-> substring(l.input, l.position + 1, after.position), lexer |-> after]

\* the characters that are a token by themselves
SingleCharTokens == {"+", "-", "/", "*", "<", ">", ";", ",", "(", ")", "{", "}", "[", "]"}

\* getNextToken(): the token it returns and the Lexer it leaves
getNextToken(lx) ==
  LET l == skipWhitespace(lx)
      Returned(token, after) == [token |-> token, lexer |-> after]
  IN  CASE l.ch \in {"=", "!"} ->
             IF peekChar(l) = "="
             THEN LET second == readChar(l)
                  IN  Returned(newToken(IF l.ch = "=" THEN TokenType.Equal
                                        ELSE TokenType.NotEqual,
                                        <<l.ch, second.ch>>),
                               readChar(second))
             ELSE Returned(newToken(IF l.ch = "=" THEN TokenType.Assign ELSE TokenType.Bang,
                                    <<l.ch>>),
                           readChar(l))
        [] l.ch \in SingleCharTokens -> Returned(newToken(l.ch, <<l.ch>>), readChar(l))
        [] l.ch = NUL -> Returned(newToken(TokenType.Eof, <<>>), readChar(l))
        [] l.ch = Quote ->
             LET str == readString(l)
             IN  Returned(newToken(TokenType.String, str.value), readChar(str.lexer))
        [] OTHER ->
             IF isLetter(l.ch)
             THEN LET literal == readIdentifier(l)
                  IN  Returned(newToken(lookupIdent(literal.value), literal.value),
                               literal.lexer)
             ELSE IF isDigit(l.ch)
             THEN LET number == readNumber(l)
                  IN  Returned(newToken(TokenType.Int, number.value), number.lexer)
             ELSE Returned(newToken(TokenType.Illegal, <<l.ch>>), readChar(l))

(***************************************************************************)
(* Parser (parser/error.ts, parser/parser.ts).  A Parser object is the     *)
(* record of its Lexer and its two tokens.  A parse function gives         *)
(* Parsed(p, node), the node it returns and the Parser it leaves, or       *)
(* ParseThrow(p, error, required) when it throws.                           *)
(***************************************************************************)
NoPrefixParseFunctionError(tokenType) ==
  [type |-> "ParseError", name |-> "NoPrefixParseFunctionError", tokenType |-> tokenType,
   message |-> "No prefix parse function for '" \o tokenType \o "' found."]

UnexpectedTokenError(expected, actual) ==
  [type |-> "ParseError", name |-> "UnexpectedTokenError",
   expected |-> expected, actual |-> actual,
   message |-> "Expected next token to be '" \o expected \o "', but got '"
               \o actual \o "'."]

Precedence ==
  [Lowest |-> 1, Equals |-> 2, LessGreater |-> 3, Sum |-> 4, Product |-> 5,
   Prefix |-> 6, Call |-> 7, Index |-> 8]

precedences ==
  (TokenType.Equal :> Precedence.Equals) @@ (TokenType.NotEqual :> Precedence.Equals)
  @@ (TokenType.LessThan :> Precedence.LessGreater)
  @@ (TokenType.GreaterThan :> Precedence.LessGreater)
  @@ (TokenType.Plus :> Precedence.Sum) @@ (TokenType.Minus :> Precedence.Sum)
  @@ (TokenType.Slash :> Precedence.Product) @@ (TokenType.Asterisk :> Precedence.Product)
  @@ (TokenType.LParen :> Precedence.Call) @@ (TokenType.LBracket :> Precedence.Index)

Parsed(p, node) == [ok |-> TRUE, p |-> p, node |-> node]
\* required is the token type that was tested where the error is thrown, or
\* "" when none was
ParseThrow(p, error, required) == [ok |-> FALSE, p |-> p, error |-> error, required |-> required]

\* a nextToken() that leaves the Parser where it is when a comma comes next
nextTokenStuckAtComma(p) ==
  IF p.peekToken.type = TokenType.Comma THEN p
  ELSE LET next == getNextToken(p.lexer)
       IN  [lexer |-> next.lexer, currentToken |-> p.peekToken, peekToken |-> next.token]

nextToken(p) ==
  LET next == getNextToken(p.lexer)
  IN  [lexer |-> next.lexer, currentToken |-> p.peekToken, peekToken |-> next.token]

\* new Parser(lexer)
NewParser(lx) ==
  LET head == getNextToken(lx)
      second == getNextToken(head.lexer)
  IN  [lexer |-> second.lexer, currentToken |-> head.token, peekToken |-> second.token]

isCurrentToken(p, type) == p.currentToken.type = type
isPeekToken(p, type) == p.peekToken.type = type

getCurrentPrecedence(p) ==
  IF p.currentToken.type \in DOMAIN precedences THEN precedences[p.currentToken.type]
  ELSE Precedence.Lowest

getPeekPrecedence(p) ==
  IF p.peekToken.type \in DOMAIN precedences THEN precedences[p.peekToken.type]
  ELSE Precedence.Lowest

\* the rest of a parse function once a call it made has returned: Continue
\* of what the call gave, or the call's throw, which ends the function
OnParsed(result, Continue(_)) == IF result.ok THEN Continue(result) ELSE result

\* One iteration of a while loop of the Parser took it from before to after:
\* whether it consumed a token, that is, whether there was a token other than
\* Eof to consume and nextToken() moved the Lexer on
Consumed(before, after) ==
  /\ before.currentToken.type # TokenType.Eof
  /\ after.lexer.readPosition > before.lexer.readPosition

\* A while loop whose iteration consumed no token tests its condition again
\* on the tokens it tested before and so runs for ever: the call that
\* never returns
NoReturn == [type |-> "NoReturn", name |-> "NoReturn"]
Diverges(p) == [ok |-> FALSE, p |-> p, error |-> NoReturn, required |-> ""]
Diverged(result) == ~result.ok /\ result.error.type = NoReturn.type

\* if (!this.expectPeek(type)) throw new UnexpectedTokenError(expected, peekToken.type):
\* the Parser after expectPeek consumed the token, or the throw
expectPeek(p, type, expected) ==
  IF isPeekToken(p, type) THEN Parsed(nextToken(p), TRUE)
  ELSE ParseThrow(p, UnexpectedTokenError(expected, p.peekToken.type), type)

\* if (this.isPeekToken(TokenType.Semicolon)) this.nextToken()
skipSemicolon(p) == IF isPeekToken(p, TokenType.Semicolon) THEN nextToken(p) ELSE p

\* parseInt(literal, 10) of a string of digits
RECURSIVE parseInt(_, _)
parseInt(literal, acc) ==
  IF Len(literal) = 0 THEN acc
  ELSE parseInt(Tail(literal),
                10 * acc + (CHOOSE d \in 0..9 : Digits[d + 1] = literal[1]))

parseIdentifier(p) == Parsed(p, Identifier(Str(p.currentToken.literal)))
parseBoolean(p) == Parsed(p, BooleanLiteral(isCurrentToken(p, TokenType.True)))
parseStringLiteral(p) == Parsed(p, StringLiteral(Str(p.currentToken.literal)))

RECURSIVE parseExpression(_, _)
RECURSIVE parseStatement(_)

\* the while loop of parseExpressionList, list the expressions so far
RECURSIVE parseExpressionListLoop(_, _)
parseExpressionListLoop(p, list) ==
  IF isPeekToken(p, TokenType.Comma)
  THEN OnParsed(parseExpression(nextToken(nextToken(p)), Precedence.Lowest),
                LAMBDA next : IF Consumed(p, next.p)
                              THEN parseExpressionListLoop(next.p, Append(list, next.node))
                              ELSE Diverges(p))
  ELSE Parsed(p, list)

parseExpressionList(p, end) ==
  IF isPeekToken(p, end) THEN Parsed(nextToken(p), <<>>)
  ELSE OnParsed(parseExpression(nextToken(p), Precedence.Lowest), LAMBDA head :
       OnParsed(parseExpressionListLoop(head.p, <<head.node>>), LAMBDA list :
       OnParsed(expectPeek(list.p, end, end), LAMBDA closed :
       Parsed(closed.p, list.node))))

parseArrayLiteral(p) ==
  OnParsed(parseExpressionList(p, TokenType.RBracket), LAMBDA elements :
  Parsed(elements.p, ArrayLiteral(elements.node)))

parseCallExpression(p, fn) ==
  OnParsed(parseExpressionList(p, TokenType.RParen), LAMBDA args :
  Parsed(args.p, CallExpression(fn, args.node)))

\* the while loop of parseBlockStatement
RECURSIVE parseBlockStatementLoop(_, _)
parseBlockStatementLoop(p, statements) ==
  IF ~isCurrentToken(p, TokenType.RBrace) /\ ~isCurrentToken(p, TokenType.Eof)
  THEN OnParsed(parseStatement(p), LAMBDA statement :
       IF Consumed(p, nextToken(statement.p))
       THEN parseBlockStatementLoop(nextToken(statement.p),
                                    Append(statements, statement.node))
       ELSE Diverges(p))
  ELSE Parsed(p, BlockStatement(statements))

parseBlockStatement(p) == parseBlockStatementLoop(nextToken(p), <<>>)

\* the while loop of parseFunctionParameters
RECURSIVE parseFunctionParametersLoop(_, _)
parseFunctionParametersLoop(p, parameters) ==
  IF isPeekToken(p, TokenType.Comma)
  THEN OnParsed(parseIdentifier(nextToken(nextToken(p))), LAMBDA next :
       IF Consumed(p, next.p)
       THEN parseFunctionParametersLoop(next.p, Append(parameters, next.node))
       ELSE Diverges(p))
  ELSE Parsed(p, parameters)

parseFunctionParameters(p) ==
  IF isPeekToken(p, TokenType.RParen) THEN Parsed(nextToken(p), <<>>)
  ELSE OnParsed(parseIdentifier(nextToken(p)), LAMBDA head :
       OnParsed(parseFunctionParametersLoop(head.p, <<head.node>>), LAMBDA parameters :
       OnParsed(expectPeek(parameters.p, TokenType.RParen, TokenType.RParen), LAMBDA closed :
       Parsed(closed.p, parameters.node))))

parseFunctionLiteral(p) ==
  OnParsed(expectPeek(p, TokenType.LParen, TokenType.LParen), LAMBDA opened :
  OnParsed(parseFunctionParameters(opened.p), LAMBDA parameters :
  OnParsed(expectPeek(parameters.p, TokenType.LBrace, TokenType.LBrace), LAMBDA brace :
  OnParsed(parseBlockStatement(brace.p), LAMBDA body :
  Parsed(body.p, FunctionLiteral(parameters.node, body.node))))))

parseGroupedExpression(p) ==
  OnParsed(parseExpression(nextToken(p), Precedence.Lowest), LAMBDA expression :
  OnParsed(expectPeek(expression.p, TokenType.RParen, TokenType.RBrace), LAMBDA closed :
  Parsed(closed.p, expression.node)))

\* the while loop of parseHashLiteral; pairs is the Map so far, whose keys
\* are distinct node objects, as the sequence of its entries
RECURSIVE parseHashLiteralLoop(_, _)
parseHashLiteralLoop(p, pairs) ==
  IF ~isPeekToken(p, TokenType.RBrace)
  THEN OnParsed(parseExpression(nextToken(p), Precedence.Lowest), LAMBDA key :
       OnParsed(expectPeek(key.p, TokenType.Colon, TokenType.Colon), LAMBDA colon :
       OnParsed(parseExpression(nextToken(colon.p), Precedence.Lowest), LAMBDA value :
       OnParsed(IF isPeekToken(value.p, TokenType.RBrace) THEN value
                ELSE expectPeek(value.p, TokenType.Comma, TokenType.Comma), LAMBDA comma :
       IF Consumed(p, comma.p)
       THEN parseHashLiteralLoop(comma.p, Append(pairs, <<key.node, value.node>>))
       ELSE Diverges(p)))))
  ELSE Parsed(p, pairs)

parseHashLiteral(p) ==
  OnParsed(parseHashLiteralLoop(p, <<>>), LAMBDA pairs :
  OnParsed(expectPeek(pairs.p, TokenType.RBrace, TokenType.RBrace), LAMBDA closed :
  Parsed(closed.p, HashLiteral(pairs.node))))

\* the `else` of parseIfExpression: the alternative block, or null
parseAlternative(p) ==
  IF isPeekToken(p, TokenType.Else)
  THEN OnParsed(expectPeek(nextToken(p), TokenType.LBrace, TokenType.LBrace),
                LAMBDA brace : parseBlockStatement(brace.p))
  ELSE Parsed(p, NoAlternative)

parseIfExpression(p) ==
  OnParsed(expectPeek(p, TokenType.LParen, TokenType.LParen), LAMBDA opened :
  OnParsed(parseExpression(nextToken(opened.p), Precedence.Lowest), LAMBDA condition :
  OnParsed(expectPeek(condition.p, TokenType.RParen, TokenType.RParen), LAMBDA closed :
  OnParsed(expectPeek(closed.p, TokenType.LBrace, TokenType.LBrace), LAMBDA brace :
  OnParsed(parseBlockStatement(brace.p), LAMBDA consequence :
  OnParsed(parseAlternative(consequence.p), LAMBDA alternative :
  Parsed(alternative.p,
         IfExpression(condition.node, consequence.node, alternative.node))))))))

parseIndexExpression(p, left) ==
  OnParsed(parseExpression(nextToken(p), Precedence.Lowest), LAMBDA index :
  OnParsed(expectPeek(index.p, TokenType.RBracket, TokenType.RBracket), LAMBDA closed :
  Parsed(closed.p, IndexExpression(left, index.node))))

\* a parseInfixExpression that parses its right operand one precedence lower
parseInfixExpressionRight(p, left) ==
  OnParsed(parseExpression(nextToken(p), getCurrentPrecedence(p) - 1), LAMBDA right :
  Parsed(right.p, InfixExpression(Str(p.currentToken.literal), left, right.node)))

parseInfixExpression(p, left) ==
  OnParsed(parseExpression(nextToken(p), getCurrentPrecedence(p)), LAMBDA right :
  Parsed(right.p, InfixExpression(Str(p.currentToken.literal), left, right.node)))

parseIntegerLiteral(p) ==
  Parsed(p, IntegerLiteral(parseInt(p.currentToken.literal, 0)))

parsePrefixExpression(p) ==
  OnParsed(parseExpression(nextToken(p), Precedence.Prefix), LAMBDA right :
  Parsed(right.p, PrefixExpression(Str(p.currentToken.literal), right.node)))

\* this.prefixParseFns.get(type)()
prefixParseFns ==
  {TokenType.Ident, TokenType.If, TokenType.Int, TokenType.Bang, TokenType.Minus,
   TokenType.True, TokenType.False, TokenType.LParen, TokenType.Function,
   TokenType.String, TokenType.LBracket, TokenType.LBrace}

prefixFn(p) ==
  LET type == p.currentToken.type
  IN  CASE type = TokenType.Ident -> parseIdentifier(p)
        [] type = TokenType.If -> parseIfExpression(p)
        [] type = TokenType.Int -> parseIntegerLiteral(p)
        [] type \in {TokenType.Bang, TokenType.Minus} -> parsePrefixExpression(p)
        [] type \in {TokenType.True, TokenType.False} -> parseBoolean(p)
        [] type = TokenType.LParen -> parseGroupedExpression(p)
        [] type = TokenType.Function -> parseFunctionLiteral(p)
        [] type = TokenType.String -> parseStringLiteral(p)
        [] type = TokenType.LBracket -> parseArrayLiteral(p)
        [] type = TokenType.LBrace -> parseHashLiteral(p)

\* this.infixParseFns.get(type)(left)
infixParseFns ==
  {TokenType.Plus, TokenType.Minus, TokenType.Slash, TokenType.Asterisk, TokenType.Equal,
   TokenType.NotEqual, TokenType.LessThan, TokenType.GreaterThan, TokenType.LParen,
   TokenType.LBracket}

infixFn(p, left) ==
  LET type == p.currentToken.type
  IN  CASE type = TokenType.LParen -> parseCallExpression(p, left)
        [] type = TokenType.LBracket -> parseIndexExpression(p, left)
        [] OTHER -> parseInfixExpression(p, left)

\* the while loop of parseExpression
RECURSIVE parseExpressionLoop(_, _, _)
parseExpressionLoop(p, precedence, leftExp) ==
  IF ~isPeekToken(p, TokenType.Semicolon) /\ precedence < getPeekPrecedence(p)
  THEN IF p.peekToken.type \notin infixParseFns THEN Parsed(p, leftExp)
       ELSE OnParsed(infixFn(nextToken(p), leftExp), LAMBDA next :
            IF Consumed(p, next.p)
            THEN parseExpressionLoop(next.p, precedence, next.node)
            ELSE Diverges(p))
  ELSE Parsed(p, leftExp)

parseExpression(p, precedence) ==
  IF p.currentToken.type \notin prefixParseFns
  THEN ParseThrow(p, NoPrefixParseFunctionError(p.currentToken.type), "")
  ELSE OnParsed(prefixFn(p), LAMBDA leftExp :
       parseExpressionLoop(leftExp.p, precedence, leftExp.node))

parseExpressionStatement(p) ==
  OnParsed(parseExpression(p, Precedence.Lowest), LAMBDA expression :
  Parsed(skipSemicolon(expression.p), ExpressionStatement(expression.node)))

parseLetStatement(p) ==
  OnParsed(expectPeek(p, TokenType.Ident, TokenType.Ident), LAMBDA ident :
  OnParsed(expectPeek(ident.p, TokenType.Assign, TokenType.Assign), LAMBDA assign :
  OnParsed(parseExpression(nextToken(assign.p), Precedence.Lowest), LAMBDA value :
  Parsed(skipSemicolon(value.p),
         LetStatement(Identifier(Str(ident.p.currentToken.literal)), value.node)))))

parseReturnStatement(p) ==
  OnParsed(parseExpression(nextToken(p), Precedence.Lowest), LAMBDA returnValue :
  Parsed(skipSemicolon(returnValue.p), ReturnStatement(returnValue.node)))

parseStatement(p) ==
  CASE p.currentToken.type = TokenType.Let -> parseLetStatement(p)
    [] p.currentToken.type = TokenType.Return -> parseReturnStatement(p)
    [] OTHER -> parseExpressionStatement(p)

\* the while loop of parseProgram
RECURSIVE parseProgramLoop(_, _)
parseProgramLoop(p, statements) ==
  IF ~isCurrentToken(p, TokenType.Eof)
  THEN OnParsed(parseStatement(p), LAMBDA statement :
       IF Consumed(p, nextToken(statement.p))
       THEN parseProgramLoop(nextToken(statement.p), Append(statements, statement.node))
       ELSE Diverges(p))
  ELSE Parsed(p, Program(statements))

parseProgram(p) == parseProgramLoop(p, <<>>)

(***************************************************************************)
(* Printer (parser/printer.ts)                                             *)
(***************************************************************************)
\* the spellings of the names, strings and operators of more than one
\* character that occur in the programs and texts below
Spellings ==
  {<<"!", "=">>,
   <<"=", "=">>,
   <<"H", "e", "l", "l", "o">>,
   <<"M", "o", "n", "k", "e", "y">>,
   <<"a", "b">>,
   <<"a", "d", "d">>,
   <<"a", "d", "d", "O", "n", "e">>,
   <<"a", "d", "d", "T", "w", "o">>,
   <<"b", "a", "r">>,
   <<"c", "o", "n", "s", "t", "r", "u", "c", "t", "o", "r">>,
   <<"f", "a", "c", "t", "o", "r", "i", "a", "l">>,
   <<"f", "a", "l", "s", "e">>,
   <<"f", "i", "r", "s", "t">>,
   <<"f", "i", "v", "e">>,
   <<"f", "o", "o">>,
   <<"f", "o", "o", "b", "a", "r">>,
   <<"i", "d", "e", "n", "t", "i", "t", "y">>,
   <<"l", "a", "s", "t">>,
   <<"l", "e", "n">>,
   <<"l", "o", "o", "p">>,
   <<"m", "k">>,
   <<"n", "a", "m", "e">>,
   <<"n", "e", "s", "t", "e", "d", "F", "u", "n", "c">>,
   <<"n", "e", "w", "A", "d", "d", "e", "r">>,
   <<"o", "n", "e">>,
   <<"p", "u", "s", "h">>,
   <<"p", "u", "t", "s">>,
   <<"r", "e", "s", "t">>,
   <<"t", "r", "u", "e">>,
   <<"t", "w", "o">>,
   <<"u", "n", "d", "e", "f", "i", "n", "e", "d">>,
   <<"W", "o", "r", "l", "d", "!">>, <<"a", " ", "b">>}

\* a string value as the sequence of its characters: Str(Chars(s)) = s
Chars(s) ==
  IF Len(s) = 0 THEN <<>>
  ELSE IF Len(s) = 1 THEN <<s>>
  ELSE CHOOSE chars \in Spellings : Str(chars) = s

\* a toString that writes a whole number in base 8
RECURSIVE toStringOctal(_)
toStringOctal(n) ==
  IF n < 0 THEN <<"-">> \o toStringOctal(-n)
  ELSE IF n < 8 THEN <<Digits[n + 1]>>
  ELSE toStringOctal(n \div 8) \o <<Digits[(n % 8) + 1]>>

\* Number.prototype.toString of a whole number
RECURSIVE toString(_)
toString(n) ==
  IF n < 0 THEN <<"-">> \o toString(-n)
  ELSE IF n < 10 THEN <<Digits[n + 1]>>
  ELSE toString(n \div 10) \o <<Digits[(n % 10) + 1]>>

\* `${x}` and Array.prototype.join for texts held as sequences of characters
TemplateChars(x) == IF x.type = "undefined" THEN <<"u", "n", "d", "e", "f", "i", "n", "e", "d">> ELSE x.value

RECURSIVE JoinChars(_, _)
JoinChars(texts, sep) ==
  IF Len(texts) = 0 THEN <<>>
  ELSE LET h == IF texts[1].type = "undefined" THEN <<>> ELSE texts[1].value
       IN  IF Len(texts) = 1 THEN h ELSE h \o sep \o JoinChars(Tail(texts), sep)

\* print(node): the string it returns, held as the sequence of its characters
RECURSIVE print(_)
print(node) ==
  CASE node.type \in {"Program", "BlockStatement"} ->
         JsString(JoinChars([i \in 1..Len(node.statements) |-> print(node.statements[i])],
                            <<"\n">>))
    [] node.type = "ExpressionStatement" ->
         JsString(TemplateChars(print(node.expression)) \o <<";">>)
    [] node.type = "LetStatement" ->
         JsString(<<"l", "e", "t", " ">> \o Chars(node.name.value) \o <<" ", "=", " ">>
                  \o TemplateChars(print(node.value)) \o <<";">>)
    [] node.type = "ReturnStatement" ->
         JsString(<<"r", "e", "t", "u", "r", "n", " ">>
                  \o TemplateChars(print(node.returnValue)) \o <<";">>)
    [] node.type = "ArrayLiteral" ->
         JsString(<<"[">>
                  \o JoinChars([i \in 1..Len(node.elements) |-> print(node.elements[i])],
                               <<",", " ">>)
                  \o <<"]">>)
    [] node.type = "BooleanLiteral" ->
         JsString(IF node.value THEN <<"t", "r", "u", "e">> ELSE <<"f", "a", "l", "s", "e">>)
    [] node.type = "CallExpression" ->
         JsString(TemplateChars(print(node.function)) \o <<"(">>
                  \o JoinChars([i \in 1..Len(node.arguments) |-> print(node.arguments[i])],
                               <<",", " ">>)
                  \o <<")">>)
    [] node.type = "FunctionLiteral" ->
         JsString(<<"f", "n", " ", "(">>
                  \o JoinChars([i \in 1..Len(node.parameters) |->
                                  JsString(Chars(node.parameters[i].value))],
                               <<",", " ">>)
                  \o <<")", " ">> \o TemplateChars(print(node.body)))
    [] node.type = "Identifier" -> JsString(Chars(node.value))
    [] node.type = "IfExpression" ->
         JsString(<<"i", "f", " ">> \o TemplateChars(print(node.condition)) \o <<" ">>
                  \o TemplateChars(print(node.consequence))
                  \o (IF node.alternative.type # "null"
                      THEN <<"e", "l", "s", "e", " ">> \o TemplateChars(print(node.alternative))
                      ELSE <<>>))
    [] node.type = "IndexExpression" ->
         JsString(<<"(">> \o TemplateChars(print(node.left)) \o <<"[">>
                  \o TemplateChars(print(node.index)) \o <<"]", ")">>)
    [] node.type = "IntegerLiteral" -> JsString(toString(node.value))
    [] node.type = "PrefixExpression" ->
         JsString(<<"(">> \o Chars(node.operator) \o TemplateChars(print(node.right))
                  \o <<")">>)
    [] node.type = "InfixExpression" ->
         JsString(<<"(">> \o TemplateChars(print(node.left)) \o <<" ">>
                  \o Chars(node.operator) \o <<" ">>
                  \o TemplateChars(print(node.right)) \o <<")">>)
    [] node.type = "StringLiteral" ->
         JsString(<<Quote>> \o Chars(node.value) \o <<Quote>>)
    \* the switch has no case for HashLiteral: the function returns undefined
    [] OTHER -> Undefined

(***************************************************************************)
(* inspect() of every runtime object (object.ts, error.ts).  Calling it on *)
(* undefined is a TypeError.                                               *)
(***************************************************************************)
RECURSIVE inspect(_)
RECURSIVE inspectAll(_, _, _)
\* elements.map((e) => e.inspect()): the strings so far, or the exception
inspectAll(objs, i, acc) ==
  IF i > Len(objs) THEN [type |-> "strings", value |-> acc]
  ELSE LET s == inspect(objs[i])
       IN  IF Thrown(s) THEN s ELSE inspectAll(objs, i + 1, Append(acc, s))

RECURSIVE inspectPairs(_, _, _)
inspectPairs(pairs, i, acc) ==
  IF i > Len(pairs) THEN [type |-> "strings", value |-> acc]
  ELSE LET k == inspect(pairs[i].key)
           v == IF Thrown(k) THEN k ELSE inspect(pairs[i].value)
       IN  IF Thrown(v) THEN v
           ELSE inspectPairs(pairs, i + 1,
                             Append(acc, JsString(k.value \o ": " \o v.value)))

inspect(obj) ==
  CASE obj.type = "undefined" -> Throw("TypeError")
    [] obj.type = "MBoolean" -> JsString(IF obj.value THEN "true" ELSE "false")
    [] obj.type = "Builtin" -> JsString("builtin function")
    [] obj.type = "MArray" ->
         LET es == inspectAll(elementsOf(obj), 1, <<>>)
         IN  IF Thrown(es) THEN es ELSE JsString("[" \o Join(es.value, ", ") \o "]")
    [] obj.type = "MFunction" ->
         JsString("fn("
                  \o Join([i \in 1..Len(obj.parameters) |-> JsString(obj.parameters[i].value)],
                          ", ")
                  \o ") {\n  " \o Str(TemplateChars(print(obj.body))) \o "\n}")
    [] obj.type = "Hash" ->
         LET ps == inspectPairs(obj.pairs, 1, <<>>)
         IN  IF Thrown(ps) THEN ps ELSE JsString("{" \o Join(ps.value, ", ") \o "}")
    [] obj.type = "Integer" -> JsString(ToFixed0(obj.value))
    [] obj.type = "Null" -> JsString("null")
    [] obj.type = "ReturnValue" -> inspect(obj.value)
    [] obj.type = "MString" -> JsString("\"" \o obj.value \o "\"")
    [] OTHER -> JsString(obj.message)

(***************************************************************************)
(* Environment (evaluator/environment.ts).  An Environment object is       *)
(* heap[e] = [store, outer]; store is the Map from names to objects,       *)
(* outer the index of the outer Environment or NoOuter (null).             *)
(***************************************************************************)
NoOuter == 0

\* Map.prototype.get: undefined when the key is absent
MapGet(store, name) == IF name \in DOMAIN store THEN store[name] ELSE Undefined

\* Map.prototype.set
MapSet(store, name, value) ==
  [k \in DOMAIN store \cup {name} |-> IF k = name THEN value ELSE store[k]]

\* `if (x)` / `!x` on an object reference: only undefined is falsy
Truthy(x) == x.type # "undefined"

\* new Environment(outer): the heap with the new object appended; the new
\* object's reference is Len of the returned heap
NewEnvironment(h, outer) == Append(h, [store |-> <<>>, outer |-> outer])

RECURSIVE get(_, _, _)
get(h, env, name) ==
  LET value == MapGet(h[env].store, name)
  IN  IF ~Truthy(value) /\ h[env].outer # NoOuter
      THEN get(h, h[env].outer, name)
      ELSE value

\* a set that assigns to the outer Environment when that one binds the name
\* and this one does not
setWhereBound(h, env, name, value) ==
  IF /\ name \notin DOMAIN h[env].store
     /\ h[env].outer # NoOuter
     /\ name \in DOMAIN h[h[env].outer].store
  THEN [h EXCEPT ![h[env].outer].store = MapSet(@, name, value)]
  ELSE [h EXCEPT ![env].store = MapSet(@, name, value)]

\* Environment.set: the heap after this.store.set(name, value)
set(h, env, name, value) ==
  [h EXCEPT ![env].store = MapSet(@, name, value)]

(***************************************************************************)
(* Evaluator helpers without sub-evaluation (evaluator/evaluator.ts)       *)
(***************************************************************************)
\* a JavaScript array of objects as a result value
JsArray(items) == [type |-> "array", items |-> items]

isError(obj) == obj.type \in EvaluationErrorNames

\* a truthiness under which the Integer 0 is falsy as well
isTruthyNonZero(obj) == obj # NULL /\ obj # MFALSE /\ obj # Integer(Whole(0))

isTruthy(obj) == obj # NULL /\ obj # MFALSE

nativeBoolToBooleanObject(b) == IF b THEN MTRUE ELSE MFALSE

unwrapReturnValue(obj) == IF obj.type = "ReturnValue" THEN obj.value ELSE obj

\* `${left.inspect()} ${operator} ${right.inspect()}`
InfixMessage(operator, left, right) ==
  LET l == inspect(left)
      r == IF Thrown(l) THEN l ELSE inspect(right)
  IN  IF Thrown(r) THEN r
      ELSE JsString(l.value \o " " \o operator \o " " \o r.value)

\* new <name>(`<prefix>${obj.inspect()}`)
ErrorInspecting(name, prefix, obj) ==
  LET s == inspect(obj)
  IN  IF Thrown(s) THEN s ELSE EvaluationError(name, prefix \o s.value)

UnknownInfixOperator(operator, left, right) ==
  LET m == InfixMessage(operator, left, right)
  IN  IF Thrown(m) THEN m
      ELSE EvaluationError("UnknownOperatorError", "Unknown operator: " \o m.value)

evalBangOperatorExpression(right) ==
  CASE right = MTRUE -> MFALSE
    [] right = MFALSE -> MTRUE
    [] right = NULL -> MTRUE
    [] OTHER -> MFALSE

evalMinusPrefixOperatorExpression(right) ==
  IF right.type = "Integer"
  THEN Integer(NumNeg(right.value))
  ELSE ErrorInspecting("UnknownOperatorError", "Unknown operator: -", right)

evalPrefixExpression(operator, right) ==
  CASE operator = "!" -> evalBangOperatorExpression(right)
    [] operator = "-" -> evalMinusPrefixOperatorExpression(right)
    [] OTHER -> ErrorInspecting("UnknownOperatorError",
                                "Unknown operator: " \o operator, right)

evalBooleanInfixExpression(operator, left, right) ==
  CASE operator = "==" -> nativeBoolToBooleanObject(left.value = right.value)
    [] operator = "!=" -> nativeBoolToBooleanObject(left.value # right.value)
    [] OTHER -> UnknownInfixOperator(operator, left, right)

evalIntegerInfixExpression(operator, left, right) ==
  CASE operator = "+" -> Integer(NumAdd(left.value, right.value))
    [] operator = "-" -> Integer(NumSub(left.value, right.value))
    [] operator = "*" -> Integer(NumMul(left.value, right.value))
    [] operator = "/" -> Integer(NumDiv(left.value, right.value))
    [] operator = "<" -> nativeBoolToBooleanObject(NumLt(left.value, right.value))
    [] operator = ">" -> nativeBoolToBooleanObject(NumLt(right.value, left.value))
    [] operator = "==" -> nativeBoolToBooleanObject(NumEq(left.value, right.value))
    [] operator = "!=" -> nativeBoolToBooleanObject(~NumEq(left.value, right.value))
    [] OTHER -> UnknownInfixOperator(operator, left, right)

evalStringInfixExpression(operator, left, right) ==
  CASE operator = "+" -> MString(left.value \o right.value)
    [] OTHER -> UnknownInfixOperator(operator, left, right)

evalInfixExpression(operator, left, right) ==
  IF left.type = "MBoolean" /\ right.type = "MBoolean"
  THEN evalBooleanInfixExpression(operator, left, right)
  ELSE IF left.type = "Integer" /\ right.type = "Integer"
  THEN evalIntegerInfixExpression(operator, left, right)
  ELSE IF left.type = "MString" /\ right.type = "MString"
  THEN evalStringInfixExpression(operator, left, right)
  \* left.constructor / right.constructor of undefined
  ELSE IF left.type = "undefined" \/ right.type = "undefined"
  THEN Throw("TypeError")
  ELSE IF left.type # right.type
  THEN LET m == InfixMessage(operator, left, right)
       IN  IF Thrown(m) THEN m
           ELSE EvaluationError("TypeMismatchError", "Type mismatch: " \o m.value)
  ELSE UnknownInfixOperator(operator, left, right)

\* array.elements[idx]: undefined unless idx is the index of an element
evalArrayIndexExpression(array, index) ==
  LET idx == index.value
      max == Whole(Len(elementsOf(array)) - 1)
  IN  IF NumLt(idx, Whole(0)) \/ NumLt(max, idx) THEN NULL
      ELSE IF IsWhole(idx) THEN elementsOf(array)[idx.n + 1]
      ELSE Undefined

\* Hash.pairs is a Map<HashKey, HashPair> kept as the sequence of its entries
\* [hashKey, key, value] in insertion order
RECURSIVE PairsGet(_, _)
PairsGet(pairs, hashKey) ==
  IF Len(pairs) = 0 THEN Undefined
  ELSE IF pairs[1].hashKey = hashKey THEN pairs[1]
  ELSE PairsGet(Tail(pairs), hashKey)

PairsSet(pairs, hashKey, key, value) ==
  LET e == [type |-> "HashPair", hashKey |-> hashKey, key |-> key, value |-> value]
  IN  IF \E i \in 1..Len(pairs) : pairs[i].hashKey = hashKey
      THEN [i \in 1..Len(pairs) |-> IF pairs[i].hashKey = hashKey THEN e ELSE pairs[i]]
      ELSE Append(pairs, e)

isHashable(obj) == obj.type \in {"MString", "Integer", "MBoolean"}

evalHashIndexExpression(hash, index) ==
  IF ~isHashable(index)
  THEN ErrorInspecting("InvalidHashKeyError",
                       "Hash key must be string, integer, or boolean, got: ", index)
  ELSE LET pair == PairsGet(hash.pairs, inspect(index).value)
       IN  IF Truthy(pair) THEN pair.value ELSE NULL

evalIndexExpression(left, index) ==
  IF left.type = "MArray" /\ index.type = "Integer"
  THEN evalArrayIndexExpression(left, index)
  ELSE IF left.type = "Hash"
  THEN evalHashIndexExpression(left, index)
  ELSE ErrorInspecting("IndexOperatorNotSupported",
                       "Index operator not supported: ", left)

(***************************************************************************)
(* Built-in functions (evaluator/builtins.ts).  args is the sequence of    *)
(* evaluated arguments; args[i] past its length is undefined.              *)
(***************************************************************************)
\* the own properties of the `builtins` object; identifiers that name a member
\* of Object.prototype (toString, constructor, ...) are outside the programs checked
BuiltinNames == {"len", "first", "last", "rest", "push"}

Arg(args, i) == IF i <= Len(args) THEN args[i] ELSE Undefined

ArgumentWrongNumberError(expected, got) ==
  EvaluationError("ArgumentWrongNumberError",
                  "Wrong number of arguments: expected " \o ToString(expected)
                  \o ", got " \o ToString(got))

\* x ?? NULL
OrNull(x) == IF x.type = "undefined" THEN NULL ELSE x

\* what a built-in gives: the object it returns (or the exception it throws)
\* and the array storage after the call
BuiltinResult(obj, a) == [result |-> obj, arrays |-> a]

len(args) ==
  LET arg == Arg(args, 1) IN
  IF Len(args) # 1 THEN ArgumentWrongNumberError(1, Len(args))
  ELSE IF arg.type = "MString" THEN Integer(Whole(Len(arg.value)))
  ELSE IF arg.type = "MArray" THEN Integer(Whole(Len(elementsOf(arg))))
  ELSE ErrorInspecting("ArgumentNotSupportedError",
                       "Argument to 'len' not supported, got ", arg)

first(args) ==
  LET arg == Arg(args, 1) IN
  IF Len(args) # 1 THEN ArgumentWrongNumberError(1, Len(args))
  ELSE IF arg.type # "MArray"
  THEN ErrorInspecting("ArgumentNotSupportedError",
                       "Argument to 'first' must be an array, got ", arg)
  ELSE OrNull(Arg(elementsOf(arg), 1))

last(args) ==
  LET arg == Arg(args, 1) IN
  IF Len(args) # 1 THEN ArgumentWrongNumberError(1, Len(args))
  ELSE IF arg.type # "MArray"
  THEN ErrorInspecting("ArgumentNotSupportedError",
                       "Argument to 'last' must be an array, got ", arg)
  ELSE IF Len(elementsOf(arg)) = 0 THEN NULL
  ELSE OrNull(elementsOf(arg)[Len(elementsOf(arg))])

\* rest: new MArray(arg.elements.slice(1))
rest(args) ==
  LET arg == Arg(args, 1) IN
  IF Len(args) # 1 THEN BuiltinResult(ArgumentWrongNumberError(1, Len(args)), arrays)
  ELSE IF arg.type # "MArray"
  THEN BuiltinResult(ErrorInspecting("ArgumentNotSupportedError",
                                     "Argument to 'rest' must be an array, got ", arg),
                     arrays)
  ELSE IF Len(elementsOf(arg)) > 0
  THEN BuiltinResult(MArray(Len(arrays) + 1), NewMArray(arrays, Tail(elementsOf(arg))))
  ELSE BuiltinResult(NULL, arrays)

\* a push that appends to the elements of its argument and returns the argument
pushInPlace(args) ==
  LET arg == Arg(args, 1) IN
  IF Len(args) # 2 THEN BuiltinResult(ArgumentWrongNumberError(2, Len(args)), arrays)
  ELSE IF arg.type # "MArray"
  THEN BuiltinResult(ErrorInspecting("ArgumentNotSupportedError",
                                     "First argument to 'push' must be an array, got ", arg),
                     arrays)
  ELSE BuiltinResult(arg, [arrays EXCEPT ![arg.ref] = Append(@, args[2])])

\* push: new MArray([...arr.elements, element])
push(args) ==
  LET arg == Arg(args, 1) IN
  IF Len(args) # 2 THEN BuiltinResult(ArgumentWrongNumberError(2, Len(args)), arrays)
  ELSE IF arg.type # "MArray"
  THEN BuiltinResult(ErrorInspecting("ArgumentNotSupportedError",
                                     "First argument to 'push' must be an array, got ", arg),
                     arrays)
  ELSE BuiltinResult(MArray(Len(arrays) + 1),
                     NewMArray(arrays, Append(elementsOf(arg), args[2])))

builtins(name, args) ==
  CASE name = "len" -> BuiltinResult(len(args), arrays)
    [] name = "first" -> BuiltinResult(first(args), arrays)
    [] name = "last" -> BuiltinResult(last(args), arrays)
    [] name = "rest" -> rest(args)
    [] name = "push" -> push(args)

(***************************************************************************)
(* The evaluator as a machine (evaluator/evaluator.ts)                     *)
(***************************************************************************)
Eval(node, env) == [mode |-> "eval", node |-> node, env |-> env]
Returns(val) == [mode |-> "ret", val |-> val]
Throws(name) == [mode |-> "throw", name |-> name]
Idle == [mode |-> "idle"]

Top == stack[Len(stack)]
Pop == SubSeq(stack, 1, Len(stack) - 1)
Push(frame) == Append(stack, frame)
Replace(frame) == Append(Pop, frame)

Evaluating(type) == ctl.mode = "eval" /\ ctl.node.type = type
Returning(fn) == ctl.mode = "ret" /\ stack # <<>> /\ Top.fn = fn

driverVars == <<driver, pc, input, lines, out, lexer, tokens, parser, parsed, printed>>

\* user-function activations on the host stack
CallDepth == Cardinality({i \in 1..Len(stack) : stack[i].fn = "applyFunction"})

\* the running activation returns v to the activation below (stack stk), or
\* v is an exception and unwinds everything
Finish(v, stk) ==
  IF Thrown(v)
  THEN ctl' = Throws(v.name) /\ stack' = <<>>
  ELSE ctl' = Returns(v) /\ stack' = stk

\* evalExpressions(exps, env) is called with stk below it
CallEvalExpressions(exps, env, stk) ==
  IF Len(exps) = 0
  THEN ctl' = Returns(JsArray(<<>>)) /\ stack' = stk
  ELSE /\ ctl' = Eval(exps[1], env)
       /\ stack' = Append(stk, [fn |-> "evalExpressions", exps |-> exps, i |-> 1,
                                env |-> env, result |-> <<>>])

\* fn.parameters.forEach((param, idx) => env.set(param.value, args[idx]))
RECURSIVE extendParams(_, _, _, _, _)
extendParams(parameters, args, idx, env, h) ==
  IF idx > Len(parameters) THEN h
  ELSE extendParams(parameters, args, idx + 1, env,
                    set(h, env, parameters[idx].value, Arg(args, idx)))

\* extendFunctionEnv with `new Environment()` in place of `new Environment(fn.env)`
extendFunctionEnvNoOuter(fn, args, h) ==
  LET h1 == NewEnvironment(h, NoOuter)
  IN  extendParams(fn.parameters, args, 1, Len(h1), h1)

\* extendFunctionEnv whose new Environment is its own outer
extendFunctionEnvSelf(fn, args, h) ==
  LET h1 == NewEnvironment(h, Len(h) + 1)
  IN  extendParams(fn.parameters, args, 1, Len(h1), h1)

\* the heap after extendFunctionEnv(fn, args); the Environment it returns is
\* the last object of that heap
extendFunctionEnv(fn, args, h) ==
  LET h1 == NewEnvironment(h, fn.env)
  IN  extendParams(fn.parameters, args, 1, Len(h1), h1)

evalIdentifier(node, env, h) ==
  LET valueObj == get(h, env, node.value)
  IN  IF Truthy(valueObj) THEN valueObj
      ELSE IF node.value \in BuiltinNames THEN Builtin(node.value)
      ELSE EvaluationError("IdentifierNotFoundError",
                           "Identifier not found: " \o node.value)

(* ---- case "Program": evalProgram ---- *)
EvalProgram ==
  /\ Evaluating("Program")
  /\ IF Len(ctl.node.statements) = 0
     THEN ctl' = Returns(NULL) /\ stack' = stack
     ELSE /\ ctl' = Eval(ctl.node.statements[1], ctl.env)
          /\ stack' = Push([fn |-> "evalProgram", statements |-> ctl.node.statements,
                            i |-> 1, env |-> ctl.env])
  /\ UNCHANGED <<heap, arrays, driverVars>>

\* a statement of the program returned `result`
RetEvalProgram ==
  /\ Returning("evalProgram")
  /\ LET f == Top
         result == ctl.val
     IN  IF isError(result) THEN ctl' = Returns(result) /\ stack' = Pop
         ELSE IF result.type = "ReturnValue"
         THEN ctl' = Returns(result.value) /\ stack' = Pop
         ELSE IF f.i < Len(f.statements)
         THEN /\ ctl' = Eval(f.statements[f.i + 1], f.env)
              /\ stack' = Replace([f EXCEPT !.i = @ + 1])
         ELSE ctl' = Returns(result) /\ stack' = Pop
  /\ UNCHANGED <<heap, arrays, driverVars>>

(* ---- case "BlockStatement": evalBlockStatement ---- *)
EvalBlockStatement ==
  /\ Evaluating("BlockStatement")
  /\ IF Len(ctl.node.statements) = 0
     THEN ctl' = Returns(NULL) /\ stack' = stack
     ELSE /\ ctl' = Eval(ctl.node.statements[1], ctl.env)
          /\ stack' = Push([fn |-> "evalBlockStatement", statements |-> ctl.node.statements,
                            i |-> 1, env |-> ctl.env])
  /\ UNCHANGED <<heap, arrays, driverVars>>

\* evalBlockStatement that stops on an Error only
RetEvalBlockStatementNoReturn ==
  /\ Returning("evalBlockStatement")
  /\ LET f == Top
         result == ctl.val
     IN  IF isError(result)
         THEN ctl' = Returns(result) /\ stack' = Pop
         ELSE IF f.i < Len(f.statements)
         THEN /\ ctl' = Eval(f.statements[f.i + 1], f.env)
              /\ stack' = Replace([f EXCEPT !.i = @ + 1])
         ELSE ctl' = Returns(result) /\ stack' = Pop
  /\ UNCHANGED <<heap, arrays, driverVars>>

\* a statement of the block returned `result`
RetEvalBlockStatement ==
  /\ Returning("evalBlockStatement")
  /\ LET f == Top
         result == ctl.val
     IN  IF isError(result) \/ result.type = "ReturnValue"
         THEN ctl' = Returns(result) /\ stack' = Pop
         ELSE IF f.i < Len(f.statements)
         THEN /\ ctl' = Eval(f.statements[f.i + 1], f.env)
              /\ stack' = Replace([f EXCEPT !.i = @ + 1])
         ELSE ctl' = Returns(result) /\ stack' = Pop
  /\ UNCHANGED <<heap, arrays, driverVars>>

(* ---- case "ExpressionStatement" ---- *)
EvalExpressionStatement ==
  /\ Evaluating("ExpressionStatement")
  /\ ctl' = Eval(ctl.node.expression, ctl.env)
  /\ UNCHANGED <<stack, heap, arrays, driverVars>>

(* ---- case "LetStatement" ---- *)
EvalLetStatement ==
  /\ Evaluating("LetStatement")
  /\ ctl' = Eval(ctl.node.value, ctl.env)
  /\ stack' = Push([fn |-> "LetStatement", name |-> ctl.node.name.value, env |-> ctl.env])
  /\ UNCHANGED <<heap, arrays, driverVars>>

\* a LetStatement case without `if (isError(value)) return value`
RetLetStatementNoCheck ==
  /\ Returning("LetStatement")
  /\ heap' = set(heap, Top.env, Top.name, ctl.val)
  /\ ctl' = Returns(NULL)
  /\ stack' = Pop
  /\ UNCHANGED <<arrays, driverVars>>

\* the value of the let returned `value`
RetLetStatement ==
  /\ Returning("LetStatement")
  /\ LET f == Top
         value == ctl.val
     IN  IF isError(value)
         THEN ctl' = Returns(value) /\ heap' = heap
         ELSE /\ heap' = set(heap, f.env, f.name, value)
              \* break; ... return NULL
              /\ ctl' = Returns(NULL)
  /\ stack' = Pop
  /\ UNCHANGED <<arrays, driverVars>>

(* ---- case "ReturnStatement" ---- *)
EvalReturnStatement ==
  /\ Evaluating("ReturnStatement")
  /\ ctl' = Eval(ctl.node.returnValue, ctl.env)
  /\ stack' = Push([fn |-> "ReturnStatement"])
  /\ UNCHANGED <<heap, arrays, driverVars>>

RetReturnStatement ==
  /\ Returning("ReturnStatement")
  /\ LET returnValue == ctl.val
     IN  IF isError(returnValue)
         THEN ctl' = Returns(returnValue)
         ELSE ctl' = Returns(ReturnValue(returnValue))
  /\ stack' = Pop
  /\ UNCHANGED <<heap, arrays, driverVars>>

(* ---- evalExpressions ---- *)
\* evalExpressions without `if (isError(evaluated)) return [evaluated]`
RetEvalExpressionsNoStop ==
  /\ Returning("evalExpressions")
  /\ LET f == Top
         evaluated == ctl.val
     IN  IF f.i < Len(f.exps)
         THEN /\ ctl' = Eval(f.exps[f.i + 1], f.env)
              /\ stack' = Replace([f EXCEPT !.i = @ + 1, !.result = Append(@, evaluated)])
         ELSE /\ ctl' = Returns(JsArray(Append(f.result, evaluated)))
              /\ stack' = Pop
  /\ UNCHANGED <<heap, arrays, driverVars>>

\* an expression of the list returned `evaluated`
RetEvalExpressions ==
  /\ Returning("evalExpressions")
  /\ LET f == Top
         evaluated == ctl.val
     IN  IF isError(evaluated)
         THEN ctl' = Returns(JsArray(<<evaluated>>)) /\ stack' = Pop
         ELSE IF f.i < Len(f.exps)
         THEN /\ ctl' = Eval(f.exps[f.i + 1], f.env)
              /\ stack' = Replace([f EXCEPT !.i = @ + 1, !.result = Append(@, evaluated)])
         ELSE /\ ctl' = Returns(JsArray(Append(f.result, evaluated)))
              /\ stack' = Pop
  /\ UNCHANGED <<heap, arrays, driverVars>>

(* ---- case "ArrayLiteral" ---- *)
EvalArrayLiteral ==
  /\ Evaluating("ArrayLiteral")
  /\ CallEvalExpressions(ctl.node.elements, ctl.env, Push([fn |-> "ArrayLiteral"]))
  /\ UNCHANGED <<heap, arrays, driverVars>>

RetArrayLiteral ==
  /\ Returning("ArrayLiteral")
  /\ LET elements == ctl.val.items
     IN  IF Len(elements) = 1 /\ isError(elements[1])
         THEN ctl' = Returns(elements[1]) /\ arrays' = arrays
         ELSE /\ arrays' = NewMArray(arrays, elements)
              /\ ctl' = Returns(MArray(Len(arrays')))
  /\ stack' = Pop
  /\ UNCHANGED <<heap, driverVars>>

(* ---- literals ---- *)
EvalBooleanLiteral ==
  /\ Evaluating("BooleanLiteral")
  /\ ctl' = Returns(nativeBoolToBooleanObject(ctl.node.value))
  /\ UNCHANGED <<stack, heap, arrays, driverVars>>

EvalIntegerLiteral ==
  /\ Evaluating("IntegerLiteral")
  /\ ctl' = Returns(Integer(Whole(ctl.node.value)))
  /\ UNCHANGED <<stack, heap, arrays, driverVars>>

EvalStringLiteral ==
  /\ Evaluating("StringLiteral")
  /\ ctl' = Returns(MString(ctl.node.value))
  /\ UNCHANGED <<stack, heap, arrays, driverVars>>

(* ---- case "FunctionLiteral" ---- *)
\* a Function that holds a copy of `env` made when the literal is evaluated
EvalFunctionLiteralCopy ==
  /\ Evaluating("FunctionLiteral")
  /\ heap' = Append(heap, heap[ctl.env])
  /\ ctl' = Returns(MFunction(ctl.node.parameters, ctl.node.body, Len(heap')))
  /\ UNCHANGED <<stack, arrays, driverVars>>

EvalFunctionLiteral ==
  /\ Evaluating("FunctionLiteral")
  /\ ctl' = Returns(MFunction(ctl.node.parameters, ctl.node.body, ctl.env))
  /\ UNCHANGED <<stack, heap, arrays, driverVars>>

(* ---- case "Identifier": evalIdentifier ---- *)
EvalIdentifier ==
  /\ Evaluating("Identifier")
  /\ ctl' = Returns(evalIdentifier(ctl.node, ctl.env, heap))
  /\ UNCHANGED <<stack, heap, arrays, driverVars>>

(* ---- case "CallExpression" and applyFunction ---- *)
EvalCallExpression ==
  /\ Evaluating("CallExpression")
  /\ ctl' = Eval(ctl.node.function, ctl.env)
  /\ stack' = Push([fn |-> "CallExpression.function", node |-> ctl.node, env |-> ctl.env])
  /\ UNCHANGED <<heap, arrays, driverVars>>

\* the callee expression returned `fn`
RetCallFunction ==
  /\ Returning("CallExpression.function")
  /\ LET f == Top
         fn == ctl.val
     IN  IF isError(fn)
         THEN ctl' = Returns(fn) /\ stack' = Pop
         ELSE CallEvalExpressions(f.node.arguments, f.env,
                                  Replace([fn |-> "CallExpression.arguments", func |-> fn,
                                           env |-> f.env]))
  /\ UNCHANGED <<heap, arrays, driverVars>>

\* evalExpressions returned args holding one Error
RetCallArgumentsError ==
  /\ Returning("CallExpression.arguments")
  /\ Len(ctl.val.items) = 1 /\ isError(ctl.val.items[1])
  /\ ctl' = Returns(ctl.val.items[1])
  /\ stack' = Pop
  /\ UNCHANGED <<heap, arrays, driverVars>>

\* applyFunction(fn, args), fn instanceof MFunction: the body is evaluated in
\* the extended Environment.  heap0 remembers the heap at the call.
ApplyFunction ==
  /\ Returning("CallExpression.arguments")
  /\ ~(Len(ctl.val.items) = 1 /\ isError(ctl.val.items[1]))
  /\ Top.func.type = "MFunction"
  /\ CallDepth < MaxCallDepth
  /\ LET fn == Top.func
         args == ctl.val.items
     IN  /\ heap' = extendFunctionEnv(fn, args, heap)
         /\ ctl' = Eval(fn.body, Len(heap'))
         /\ stack' = Replace([fn |-> "applyFunction", func |-> fn, args |-> args,
                              extendedEnv |-> Len(heap'), heap0 |-> heap])
  /\ UNCHANGED <<arrays, driverVars>>

\* the host stack is exhausted: RangeError
ApplyFunctionOverflow ==
  /\ Returning("CallExpression.arguments")
  /\ ~(Len(ctl.val.items) = 1 /\ isError(ctl.val.items[1]))
  /\ Top.func.type = "MFunction"
  /\ CallDepth >= MaxCallDepth
  /\ ctl' = Throws("RangeError")
  /\ stack' = <<>>
  /\ UNCHANGED <<heap, arrays, driverVars>>

\* the body returned `evaluated`
RetApplyFunction ==
  /\ Returning("applyFunction")
  /\ ctl' = Returns(unwrapReturnValue(ctl.val))
  /\ stack' = Pop
  /\ UNCHANGED <<heap, arrays, driverVars>>

\* applyFunction(fn, args), fn instanceof Builtin
ApplyBuiltin ==
  /\ Returning("CallExpression.arguments")
  /\ ~(Len(ctl.val.items) = 1 /\ isError(ctl.val.items[1]))
  /\ Top.func.type = "Builtin"
  /\ LET called == builtins(Top.func.fn, ctl.val.items)
     IN  Finish(called.result, Pop) /\ arrays' = called.arrays
  /\ UNCHANGED <<heap, driverVars>>

\* applyFunction(fn, args), fn neither: NotAFunctionError(fn.inspect())
ApplyNotAFunction ==
  /\ Returning("CallExpression.arguments")
  /\ ~(Len(ctl.val.items) = 1 /\ isError(ctl.val.items[1]))
  /\ Top.func.type \notin {"MFunction", "Builtin"}
  /\ Finish(ErrorInspecting("NotAFunctionError", "Not a function: ", Top.func), Pop)
  /\ UNCHANGED <<heap, arrays, driverVars>>

(* ---- case "HashLiteral": evalHashLiteral ---- *)
EvalHashLiteral ==
  /\ Evaluating("HashLiteral")
  /\ IF Len(ctl.node.pairs) = 0
     THEN ctl' = Returns(Hash(<<>>)) /\ stack' = stack
     ELSE /\ ctl' = Eval(ctl.node.pairs[1][1], ctl.env)
          /\ stack' = Push([fn |-> "evalHashLiteral.key", nodePairs |-> ctl.node.pairs,
                            i |-> 1, env |-> ctl.env, pairs |-> <<>>])
  /\ UNCHANGED <<heap, arrays, driverVars>>

\* the key expression of pair i returned `key`
RetHashKey ==
  /\ Returning("evalHashLiteral.key")
  /\ LET f == Top
         key == ctl.val
     IN  IF isError(key) THEN ctl' = Returns(key) /\ stack' = Pop
         ELSE IF ~isHashable(key)
         THEN Finish(ErrorInspecting("InvalidHashKeyError",
                       "Hash key must be string, integer, or boolean, got: ", key), Pop)
         ELSE /\ ctl' = Eval(f.nodePairs[f.i][2], f.env)
              /\ stack' = Replace([fn |-> "evalHashLiteral.value", nodePairs |-> f.nodePairs,
                                   i |-> f.i, env |-> f.env, pairs |-> f.pairs, key |-> key])
  /\ UNCHANGED <<heap, arrays, driverVars>>

\* the value expression of pair i returned `value`
RetHashValue ==
  /\ Returning("evalHashLiteral.value")
  /\ LET f == Top
         value == ctl.val
         pairs == PairsSet(f.pairs, inspect(f.key).value, f.key, value)
     IN  IF isError(value) THEN ctl' = Returns(value) /\ stack' = Pop
         ELSE IF f.i < Len(f.nodePairs)
         THEN /\ ctl' = Eval(f.nodePairs[f.i + 1][1], f.env)
              /\ stack' = Replace([fn |-> "evalHashLiteral.key", nodePairs |-> f.nodePairs,
                                   i |-> f.i + 1, env |-> f.env, pairs |-> pairs])
         ELSE ctl' = Returns(Hash(pairs)) /\ stack' = Pop
  /\ UNCHANGED <<heap, arrays, driverVars>>

(* ---- case "IfExpression": evalIfExpression ---- *)
EvalIfExpression ==
  /\ Evaluating("IfExpression")
  /\ ctl' = Eval(ctl.node.condition, ctl.env)
  /\ stack' = Push([fn |-> "evalIfExpression", node |-> ctl.node, env |-> ctl.env])
  /\ UNCHANGED <<heap, arrays, driverVars>>

\* the condition returned; the chosen block is evaluated in tail position
RetIfCondition ==
  /\ Returning("evalIfExpression")
  /\ LET f == Top
         condition == ctl.val
     IN  IF isError(condition) THEN ctl' = Returns(condition)
         ELSE IF isTruthy(condition) THEN ctl' = Eval(f.node.consequence, f.env)
         ELSE IF f.node.alternative.type # "null"
         THEN ctl' = Eval(f.node.alternative, f.env)
         ELSE ctl' = Returns(NULL)
  /\ stack' = Pop
  /\ UNCHANGED <<heap, arrays, driverVars>>

(* ---- case "IndexExpression" ---- *)
EvalIndexExpression ==
  /\ Evaluating("IndexExpression")
  /\ ctl' = Eval(ctl.node.left, ctl.env)
  /\ stack' = Push([fn |-> "IndexExpression.left", node |-> ctl.node, env |-> ctl.env])
  /\ UNCHANGED <<heap, arrays, driverVars>>

RetIndexLeft ==
  /\ Returning("IndexExpression.left")
  /\ LET f == Top
         left == ctl.val
     IN  IF isError(left) THEN ctl' = Returns(left) /\ stack' = Pop
         ELSE /\ ctl' = Eval(f.node.index, f.env)
              /\ stack' = Replace([fn |-> "IndexExpression.index", left |-> left])
  /\ UNCHANGED <<heap, arrays, driverVars>>

RetIndexIndex ==
  /\ Returning("IndexExpression.index")
  /\ LET index == ctl.val
     IN  IF isError(index) THEN ctl' = Returns(index) /\ stack' = Pop
         ELSE Finish(evalIndexExpression(Top.left, index), Pop)
  /\ UNCHANGED <<heap, arrays, driverVars>>

(* ---- case "InfixExpression" ---- *)
EvalInfixExpression ==
  /\ Evaluating("InfixExpression")
  /\ ctl' = Eval(ctl.node.left, ctl.env)
  /\ stack' = Push([fn |-> "InfixExpression.left", node |-> ctl.node, env |-> ctl.env])
  /\ UNCHANGED <<heap, arrays, driverVars>>

RetInfixLeft ==
  /\ Returning("InfixExpression.left")
  /\ LET f == Top
         left == ctl.val
     IN  IF isError(left) THEN ctl' = Returns(left) /\ stack' = Pop
         ELSE /\ ctl' = Eval(f.node.right, f.env)
              /\ stack' = Replace([fn |-> "InfixExpression.right",
                                   operator |-> f.node.operator, left |-> left])
  /\ UNCHANGED <<heap, arrays, driverVars>>

RetInfixRight ==
  /\ Returning("InfixExpression.right")
  /\ LET f == Top
         right == ctl.val
     IN  IF isError(right) THEN ctl' = Returns(right) /\ stack' = Pop
         ELSE Finish(evalInfixExpression(f.operator, f.left, right), Pop)
  /\ UNCHANGED <<heap, arrays, driverVars>>

(* ---- case "PrefixExpression" ---- *)
EvalPrefixExpression ==
  /\ Evaluating("PrefixExpression")
  /\ ctl' = Eval(ctl.node.right, ctl.env)
  /\ stack' = Push([fn |-> "PrefixExpression", operator |-> ctl.node.operator])
  /\ UNCHANGED <<heap, arrays, driverVars>>

RetPrefixRight ==
  /\ Returning("PrefixExpression")
  /\ LET right == ctl.val
     IN  IF isError(right) THEN ctl' = Returns(right) /\ stack' = Pop
         ELSE Finish(evalPrefixExpression(Top.operator, right), Pop)
  /\ UNCHANGED <<heap, arrays, driverVars>>

\* one step of evaluate
Evaluate ==
  \/ EvalProgram \/ RetEvalProgram
  \/ EvalBlockStatement \/ RetEvalBlockStatement
  \/ EvalExpressionStatement
  \/ EvalLetStatement \/ RetLetStatement
  \/ EvalReturnStatement \/ RetReturnStatement
  \/ RetEvalExpressions
  \/ EvalArrayLiteral \/ RetArrayLiteral
  \/ EvalBooleanLiteral \/ EvalIntegerLiteral \/ EvalStringLiteral
  \/ EvalFunctionLiteral
  \/ EvalIdentifier
  \/ EvalCallExpression \/ RetCallFunction \/ RetCallArgumentsError
  \/ ApplyFunction \/ ApplyFunctionOverflow \/ RetApplyFunction
  \/ ApplyBuiltin \/ ApplyNotAFunction
  \/ EvalHashLiteral \/ RetHashKey \/ RetHashValue
  \/ EvalIfExpression \/ RetIfCondition
  \/ EvalIndexExpression \/ RetIndexLeft \/ RetIndexIndex
  \/ EvalInfixExpression \/ RetInfixLeft \/ RetInfixRight
  \/ EvalPrefixExpression \/ RetPrefixRight

(***************************************************************************)
(* Input programs: the ASTs parseProgram returns for the source texts      *)
(* quoted beside them.                                                      *)
(***************************************************************************)
N(n) == IntegerLiteral(n)
Neg(n) == PrefixExpression("-", IntegerLiteral(n))
V(name) == Identifier(name)
B(b) == BooleanLiteral(b)
S(str) == StringLiteral(str)
ES(e) == ExpressionStatement(e)
Let(name, e) == LetStatement(Identifier(name), e)
Return(e) == ReturnStatement(e)
Bin(op, l, r) == InfixExpression(op, l, r)
Fn(params, stmts) ==
  FunctionLiteral([i \in 1..Len(params) |-> Identifier(params[i])], BlockStatement(stmts))
Call(f, args) == CallExpression(f, args)
If(c, stmts) == IfExpression(c, BlockStatement(stmts), NoAlternative)
IfElse(c, stmts, alts) == IfExpression(c, BlockStatement(stmts), BlockStatement(alts))
Idx(l, i) == IndexExpression(l, i)
Arr(es) == ArrayLiteral(es)
Prog(stmts) == Program(stmts)

\* the source text `n` of an integer -MaxInt..MaxInt: a literal, or `-` applied to one
Lit(i) == IF i < 0 THEN Neg(-i) ELSE N(i)

InfixOperators == <<"+", "-", "*", "/", "<", ">", "==", "!=">>

\* `a / b;` for every a in -MaxInt..MaxInt and every b # 0 in -MaxInt..MaxInt
Dividends == 2 * MaxInt + 1
DivisionPrograms ==
  [k \in 1..(Dividends * 2 * MaxInt) |->
     LET a == ((k - 1) % Dividends) - MaxInt
         j == (k - 1) \div Dividends
         b == IF j < MaxInt THEN j - MaxInt ELSE j - MaxInt + 1
     IN  Prog(<<ES(Bin("/", Lit(a), Lit(b)))>>)]

\* `a op 2;` for every operator and every a in -MaxInt..MaxInt
ArithmeticPrograms ==
  [k \in 1..(Dividends * Len(InfixOperators)) |->
     LET a == ((k - 1) % Dividends) - MaxInt
         op == InfixOperators[((k - 1) \div Dividends) + 1]
     IN  Prog(<<ES(Bin(op, Lit(a), N(2)))>>)]

\* fn(n) { if (n == 0) { return 1; } else { return n * factorial(n - 1); } }
Factorial ==
  Fn(<<"n">>, <<ES(IfElse(Bin("==", V("n"), N(0)),
                          <<Return(N(1))>>,
                          <<Return(Bin("*", V("n"),
                                       Call(V("factorial"), <<Bin("-", V("n"), N(1))>>)))>>))>>)

\* if (true) { return 1; }
IfReturn1 == If(B(TRUE), <<Return(N(1))>>)

ErrorPrograms == <<
  \* 5; true + false; let a = 1; 5
  Prog(<<ES(N(5)), ES(Bin("+", B(TRUE), B(FALSE))), Let("a", N(1)), ES(N(5))>>),
  \* let a = foo; let b = 1; b
  Prog(<<Let("a", V("foo")), Let("b", N(1)), ES(V("b"))>>),
  \* return foo; let b = 1;
  Prog(<<Return(V("foo")), Let("b", N(1))>>),
  \* foo + bar
  Prog(<<ES(Bin("+", V("foo"), V("bar")))>>),
  \* 1 + foo + bar
  Prog(<<ES(Bin("+", Bin("+", N(1), V("foo")), V("bar")))>>),
  \* foo + if (true) { let a = 1; a }
  Prog(<<ES(Bin("+", V("foo"), If(B(TRUE), <<Let("a", N(1)), ES(V("a"))>>)))>>),
  \* foo(bar)
  Prog(<<ES(Call(V("foo"), <<V("bar")>>))>>),
  \* len(foo, bar)
  Prog(<<ES(Call(V("len"), <<V("foo"), V("bar")>>))>>),
  \* len(1, foo, if (true) { let a = 1; a })
  Prog(<<ES(Call(V("len"), <<N(1), V("foo"),
                            If(B(TRUE), <<Let("a", N(1)), ES(V("a"))>>)>>))>>),
  \* [foo, bar, 1]
  Prog(<<ES(Arr(<<V("foo"), V("bar"), N(1)>>))>>),
  \* [1, foo, if (true) { let a = 1; a }]
  Prog(<<ES(Arr(<<N(1), V("foo"), If(B(TRUE), <<Let("a", N(1)), ES(V("a"))>>)>>))>>),
  \* {foo: bar}
  Prog(<<ES(HashLiteral(<< <<V("foo"), V("bar")>> >>))>>),
  \* {1: foo, bar: 2}
  Prog(<<ES(HashLiteral(<< <<N(1), V("foo")>>, <<V("bar"), N(2)>> >>))>>),
  \* {fn(x) { x }: bar}
  Prog(<<ES(HashLiteral(<< <<Fn(<<"x">>, <<ES(V("x"))>>), V("bar")>> >>))>>),
  \* [1, 2][foo]
  Prog(<<ES(Idx(Arr(<<N(1), N(2)>>), V("foo")))>>),
  \* foo[bar]
  Prog(<<ES(Idx(V("foo"), V("bar")))>>),
  \* -foo
  Prog(<<ES(PrefixExpression("-", V("foo")))>>),
  \* if (foo) { let a = 1 } else { let b = 2 }
  Prog(<<ES(IfElse(V("foo"), <<Let("a", N(1))>>, <<Let("b", N(2))>>))>>),
  \* if (10 > 1) { if (8 > 1) { return true + false; } return 1; }
  Prog(<<ES(If(Bin(">", N(10), N(1)),
               <<ES(If(Bin(">", N(8), N(1)),
                       <<Return(Bin("+", B(TRUE), B(FALSE)))>>)),
                 Return(N(1))>>))>>),
  \* let f = fn() { foo; let a = 1; 2 }; f(); let b = 1;
  Prog(<<Let("f", Fn(<<>>, <<ES(V("foo")), Let("a", N(1)), ES(N(2))>>)),
         ES(Call(V("f"), <<>>)), Let("b", N(1))>>),
  \* 5 + true; 5;
  Prog(<<ES(Bin("+", N(5), B(TRUE))), ES(N(5))>>),
  \* -true
  Prog(<<ES(PrefixExpression("-", B(TRUE)))>>),
  \* "Hello" - "World!"
  Prog(<<ES(Bin("-", S("Hello"), S("World!")))>>),
  \* "Hello"[0]
  Prog(<<ES(Idx(S("Hello"), N(0)))>>),
  \* {"name": "Monkey"}[fn(x) { x }];
  Prog(<<ES(Idx(HashLiteral(<< <<S("name"), S("Monkey")>> >>), Fn(<<"x">>, <<ES(V("x"))>>)))>>),
  \* 1(2)
  Prog(<<ES(Call(N(1), <<N(2)>>))>>),
  \* len(1); first(1); push([1])
  Prog(<<ES(Call(V("len"), <<N(1)>>))>>),
  Prog(<<ES(Call(V("first"), <<N(1)>>))>>),
  Prog(<<ES(Call(V("push"), <<Arr(<<N(1)>>)>>))>>)
>>

FunctionPrograms == <<
  \* let identity = fn(x) { x; }; identity(5);
  Prog(<<Let("identity", Fn(<<"x">>, <<ES(V("x"))>>)), ES(Call(V("identity"), <<N(5)>>))>>),
  \* let add = fn(x, y) { x + y; }; add(5 + 5, add(5, 5));
  Prog(<<Let("add", Fn(<<"x", "y">>, <<ES(Bin("+", V("x"), V("y")))>>)),
         ES(Call(V("add"), <<Bin("+", N(5), N(5)), Call(V("add"), <<N(5), N(5)>>)>>))>>),
  \* fn(x) { x; }(5)
  Prog(<<ES(Call(Fn(<<"x">>, <<ES(V("x"))>>), <<N(5)>>))>>),
  \* let x = 5; let addOne = fn(x) { x + 1 }; addOne(10);
  Prog(<<Let("x", N(5)), Let("addOne", Fn(<<"x">>, <<ES(Bin("+", V("x"), N(1)))>>)),
         ES(Call(V("addOne"), <<N(10)>>))>>),
  \* let x = 5; let f = fn(x) { x }; f();
  Prog(<<Let("x", N(5)), Let("f", Fn(<<"x">>, <<ES(V("x"))>>)), ES(Call(V("f"), <<>>))>>),
  \* let f = fn(x) { x }; f();
  Prog(<<Let("f", Fn(<<"x">>, <<ES(V("x"))>>)), ES(Call(V("f"), <<>>))>>),
  \* let x = 5; let f = fn(x, y) { y; x }; f(1, 2, 3);
  Prog(<<Let("x", N(5)), Let("f", Fn(<<"x", "y">>, <<ES(V("y")), ES(V("x"))>>)),
         ES(Call(V("f"), <<N(1), N(2), N(3)>>))>>),
  \* let x = 5; let g = fn(x) { fn() { x } }; g()();
  Prog(<<Let("x", N(5)), Let("g", Fn(<<"x">>, <<ES(Fn(<<>>, <<ES(V("x"))>>))>>)),
         ES(Call(Call(V("g"), <<>>), <<>>))>>),
  \* let newAdder = fn(x) { fn(y) { x + y }; }; let addTwo = newAdder(2); addTwo(3);
  Prog(<<Let("newAdder", Fn(<<"x">>, <<ES(Fn(<<"y">>, <<ES(Bin("+", V("x"), V("y")))>>))>>)),
         Let("addTwo", Call(V("newAdder"), <<N(2)>>)),
         ES(Call(V("addTwo"), <<N(3)>>))>>),
  \* let x = 10; let nestedFunc = fn() { fn() { fn() { x; } } } nestedFunc()()();
  Prog(<<Let("x", N(10)),
         Let("nestedFunc", Fn(<<>>, <<ES(Fn(<<>>, <<ES(Fn(<<>>, <<ES(V("x"))>>))>>))>>)),
         ES(Call(Call(Call(V("nestedFunc"), <<>>), <<>>), <<>>))>>),
  \* let g = fn() { y }; let f = fn(y) { g() }; f(1);
  Prog(<<Let("g", Fn(<<>>, <<ES(V("y"))>>)),
         Let("f", Fn(<<"y">>, <<ES(Call(V("g"), <<>>))>>)),
         ES(Call(V("f"), <<N(1)>>))>>),
  \* let h = fn() { z }; let g = fn(z) { h() }; let f = fn(y) { g(y) }; f(1);
  Prog(<<Let("h", Fn(<<>>, <<ES(V("z"))>>)),
         Let("g", Fn(<<"z">>, <<ES(Call(V("h"), <<>>))>>)),
         Let("f", Fn(<<"y">>, <<ES(Call(V("g"), <<V("y")>>))>>)),
         ES(Call(V("f"), <<N(1)>>))>>),
  \* let f = fn() { let y = 1; g() }; let g = fn() { y }; f();
  Prog(<<Let("f", Fn(<<>>, <<Let("y", N(1)), ES(Call(V("g"), <<>>))>>)),
         Let("g", Fn(<<>>, <<ES(V("y"))>>)),
         ES(Call(V("f"), <<>>))>>),
  \* let f = fn() { x }; let x = 1; f();
  Prog(<<Let("f", Fn(<<>>, <<ES(V("x"))>>)), Let("x", N(1)), ES(Call(V("f"), <<>>))>>),
  \* let x = 1; let f = fn() { x }; let x = 2; f();
  Prog(<<Let("x", N(1)), Let("f", Fn(<<>>, <<ES(V("x"))>>)), Let("x", N(2)),
         ES(Call(V("f"), <<>>))>>),
  \* let mk = fn() { let a = 1; let r = fn() { a }; let a = 2; r }; mk()();
  Prog(<<Let("mk", Fn(<<>>, <<Let("a", N(1)), Let("r", Fn(<<>>, <<ES(V("a"))>>)),
                              Let("a", N(2)), ES(V("r"))>>)),
         ES(Call(Call(V("mk"), <<>>), <<>>))>>),
  \* let factorial = fn(n) { ... }; factorial(2);
  Prog(<<Let("factorial", Factorial), ES(Call(V("factorial"), <<N(2)>>))>>),
  \* let factorial = fn(n) { ... }; factorial(3);
  Prog(<<Let("factorial", Factorial), ES(Call(V("factorial"), <<N(3)>>))>>),
  \* let loop = fn() { loop() }; loop();
  Prog(<<Let("loop", Fn(<<>>, <<ES(Call(V("loop"), <<>>))>>)), ES(Call(V("loop"), <<>>))>>),
  \* let x = 1; let f = fn() { let x = 2; x }; f(); x;
  Prog(<<Let("x", N(1)), Let("f", Fn(<<>>, <<Let("x", N(2)), ES(V("x"))>>)),
         ES(Call(V("f"), <<>>)), ES(V("x"))>>),
  \* let x = 1; let f = fn(x) { let x = x + 1; let g = fn() { let x = 7; x }; g() + x };
  \* f(3) + x;
  Prog(<<Let("x", N(1)),
         Let("f", Fn(<<"x">>, <<Let("x", Bin("+", V("x"), N(1))),
                                Let("g", Fn(<<>>, <<Let("x", N(7)), ES(V("x"))>>)),
                                ES(Bin("+", Call(V("g"), <<>>), V("x")))>>)),
         ES(Bin("+", Call(V("f"), <<N(3)>>), V("x")))>>),
  \* let x = 1; let f = fn(a) { a }; f(if (true) { let x = 2; 3 }); x;
  Prog(<<Let("x", N(1)), Let("f", Fn(<<"a">>, <<ES(V("a"))>>)),
         ES(Call(V("f"), <<If(B(TRUE), <<Let("x", N(2)), ES(N(3))>>)>>)), ES(V("x"))>>)
>>

ReturnPrograms == <<
  \* return 10; 9;
  Prog(<<Return(N(10)), ES(N(9))>>),
  \* 9; return 2 * 5; let a = 1; 9;
  Prog(<<ES(N(9)), Return(Bin("*", N(2), N(5))), Let("a", N(1)), ES(N(9))>>),
  \* if (10 > 1) { if (8 > 1) { return 10; } return 1; }
  Prog(<<ES(If(Bin(">", N(10), N(1)),
               <<ES(If(Bin(">", N(8), N(1)), <<Return(N(10))>>)), Return(N(1))>>))>>),
  \* if (true) { if (true) { if (false) { 0 } else { return 10; } let a = 1; } let b = 1; }
  \* let c = 1; 9
  Prog(<<ES(If(B(TRUE),
               <<ES(If(B(TRUE),
                       <<ES(IfElse(B(FALSE), <<ES(N(0))>>, <<Return(N(10))>>)),
                         Let("a", N(1))>>)),
                 Let("b", N(1))>>)),
         Let("c", N(1)), ES(N(9))>>),
  \* let f = fn() { if (true) { if (true) { return 10; } let a = 1; return 1; } let b = 2; 3 };
  \* f() + 1;
  Prog(<<Let("f", Fn(<<>>, <<ES(If(B(TRUE),
                                   <<ES(If(B(TRUE), <<Return(N(10))>>)),
                                     Let("a", N(1)), Return(N(1))>>)),
                             Let("b", N(2)), ES(N(3))>>)),
         ES(Bin("+", Call(V("f"), <<>>), N(1)))>>),
  \* let f = fn(x) { if (x) { return 1; } 2 }; let a = f(true); let b = f(false); a + b;
  Prog(<<Let("f", Fn(<<"x">>, <<ES(If(V("x"), <<Return(N(1))>>)), ES(N(2))>>)),
         Let("a", Call(V("f"), <<B(TRUE)>>)), Let("b", Call(V("f"), <<B(FALSE)>>)),
         ES(Bin("+", V("a"), V("b")))>>),
  \* let f = fn() { return 1; 2 }; let g = fn() { f(); return 3; 4 }; g(); 5
  Prog(<<Let("f", Fn(<<>>, <<Return(N(1)), ES(N(2))>>)),
         Let("g", Fn(<<>>, <<ES(Call(V("f"), <<>>)), Return(N(3)), ES(N(4))>>)),
         ES(Call(V("g"), <<>>)), ES(N(5))>>),
  \* let x = if (true) { return 1; }; x
  Prog(<<Let("x", IfReturn1), ES(V("x"))>>),
  \* let x = if (true) { return 1; }; let y = 2; x + y
  Prog(<<Let("x", IfReturn1), Let("y", N(2)), ES(Bin("+", V("x"), V("y")))>>),
  \* [if (true) { return 1; }]
  Prog(<<ES(Arr(<<IfReturn1>>))>>),
  \* {1: if (true) { return 1; }}
  Prog(<<ES(HashLiteral(<< <<N(1), IfReturn1>> >>))>>),
  \* fn(a) { a }(if (true) { return 1; })
  Prog(<<ES(Call(Fn(<<"a">>, <<ES(V("a"))>>), <<IfReturn1>>))>>),
  \* -if (true) { return 1; }
  Prog(<<ES(PrefixExpression("-", IfReturn1))>>),
  \* !if (true) { return 1; }
  Prog(<<ES(PrefixExpression("!", IfReturn1))>>),
  \* if (true) { return 1; } + 1
  Prog(<<ES(Bin("+", IfReturn1, N(1)))>>),
  \* [1, 2][if (true) { return 1; }]
  Prog(<<ES(Idx(Arr(<<N(1), N(2)>>), IfReturn1))>>),
  \* return if (true) { return 1; };
  Prog(<<Return(IfReturn1)>>),
  \* fn() { return if (true) { return 1; }; }()
  Prog(<<ES(Call(Fn(<<>>, <<Return(IfReturn1)>>), <<>>))>>),
  \* let f = fn() { if (true) { return if (true) { return 1; }; } 5 }; f()
  Prog(<<Let("f", Fn(<<>>, <<ES(If(B(TRUE), <<Return(IfReturn1)>>)), ES(N(5))>>)),
         ES(Call(V("f"), <<>>))>>),
  \* let f = fn() { return if (true) { return 1; }; };
  \* let g = fn() { f(); let a = 2; a }; g(); 5
  Prog(<<Let("f", Fn(<<>>, <<Return(IfReturn1)>>)),
         Let("g", Fn(<<>>, <<ES(Call(V("f"), <<>>)), Let("a", N(2)), ES(V("a"))>>)),
         ES(Call(V("g"), <<>>)), ES(N(5))>>),
  \* let f = fn() { if (true) { return 1; } 2 }; if (true) { f(); 3 }
  Prog(<<Let("f", Fn(<<>>, <<ES(If(B(TRUE), <<Return(N(1))>>)), ES(N(2))>>)),
         ES(If(B(TRUE), <<ES(Call(V("f"), <<>>)), ES(N(3))>>))>>)
>>

ValuePrograms == <<
  \* (empty input)
  Prog(<<>>),
  \* let a = 5 * 5; a;
  Prog(<<Let("a", Bin("*", N(5), N(5))), ES(V("a"))>>),
  \* (5 + 10 * 2 + 15 / 3) * 2 + -10
  Prog(<<ES(Bin("+", Bin("*", Bin("+", Bin("+", N(5), Bin("*", N(10), N(2))),
                                  Bin("/", N(15), N(3))), N(2)), Neg(10)))>>),
  \* !5; !!true; !if (false) { 1 }
  Prog(<<ES(PrefixExpression("!", N(5))),
         ES(PrefixExpression("!", PrefixExpression("!", B(TRUE)))),
         ES(PrefixExpression("!", If(B(FALSE), <<ES(N(1))>>)))>>),
  \* if (0) { 1 } else { 2 }
  Prog(<<ES(IfElse(N(0), <<ES(N(1))>>, <<ES(N(2))>>))>>),
  \* if (1 > 2) { 10 }
  Prog(<<ES(If(Bin(">", N(1), N(2)), <<ES(N(10))>>))>>),
  \* true == false; true != false; "a" + "b"; fn() { 1 } == fn() { 1 }
  Prog(<<ES(Bin("==", B(TRUE), B(FALSE))), ES(Bin("!=", B(TRUE), B(FALSE))),
         ES(Bin("+", S("a"), S("b")))>>),
  Prog(<<ES(Bin("==", Fn(<<>>, <<ES(N(1))>>), Fn(<<>>, <<ES(N(1))>>)))>>),
  \* let a = [1, 2]; push(a, 3); a
  Prog(<<Let("a", Arr(<<N(1), N(2)>>)), ES(Call(V("push"), <<V("a"), N(3)>>)), ES(V("a"))>>),
  \* len("ab") + len([1]); first([1, 2]); last([1, 2]); rest([1, 2]); rest([]); first([])
  Prog(<<ES(Bin("+", Call(V("len"), <<S("ab")>>), Call(V("len"), <<Arr(<<N(1)>>)>>))),
         ES(Call(V("first"), <<Arr(<<N(1), N(2)>>)>>)),
         ES(Call(V("last"), <<Arr(<<N(1), N(2)>>)>>)),
         ES(Call(V("rest"), <<Arr(<<N(1), N(2)>>)>>)),
         ES(Call(V("rest"), <<Arr(<<>>)>>)),
         ES(Call(V("first"), <<Arr(<<>>)>>))>>),
  \* [1, 2, 3][1]; [1, 2, 3][3]; [1, 2, 3][-1]
  Prog(<<ES(Idx(Arr(<<N(1), N(2), N(3)>>), N(1))), ES(Idx(Arr(<<N(1), N(2), N(3)>>), N(3))),
         ES(Idx(Arr(<<N(1), N(2), N(3)>>), Neg(1)))>>),
  \* {"one": 1, 2: "two", true: 3, "one": 4}["one"]
  Prog(<<ES(Idx(HashLiteral(<< <<S("one"), N(1)>>, <<N(2), S("two")>>, <<B(TRUE), N(3)>>,
                               <<S("one"), N(4)>> >>), S("one")))>>),
  \* {1: 2}[3]
  Prog(<<ES(Idx(HashLiteral(<< <<N(1), N(2)>> >>), N(3)))>>),
  \* [1, 2][1 / 2]
  Prog(<<ES(Idx(Arr(<<N(1), N(2)>>), Bin("/", N(1), N(2))))>>),
  \* [1, 2][1 / 2] + 1
  Prog(<<ES(Bin("+", Idx(Arr(<<N(1), N(2)>>), Bin("/", N(1), N(2))), N(1)))>>),
  \* let u = [1, 2][1 / 2]; u
  Prog(<<Let("u", Idx(Arr(<<N(1), N(2)>>), Bin("/", N(1), N(2)))), ES(V("u"))>>),
  \* 7 / 2 * 2
  Prog(<<ES(Bin("*", Bin("/", N(7), N(2)), N(2)))>>)
>>

\* operand expressions, one or more of each runtime type:
\* 1, true, "a", if (false) { 1 }, [1], {1: 2}, fn() { 1 }, len, [[1, 2][1 / 2]]
Operands == <<
  N(1), B(TRUE), S("a"), If(B(FALSE), <<ES(N(1))>>), Arr(<<N(1)>>),
  HashLiteral(<< <<N(1), N(2)>> >>), Fn(<<>>, <<ES(N(1))>>), V("len"),
  Arr(<<Idx(Arr(<<N(1), N(2)>>), Bin("/", N(1), N(2)))>>)
>>

\* `l op r` for every operator and every pair of operand expressions
InfixPrograms ==
  [k \in 1..(Len(InfixOperators) * Len(Operands) * Len(Operands)) |->
     LET op == InfixOperators[((k - 1) % Len(InfixOperators)) + 1]
         j == (k - 1) \div Len(InfixOperators)
         l == Operands[(j % Len(Operands)) + 1]
         r == Operands[(j \div Len(Operands)) + 1]
     IN  Prog(<<ES(Bin(op, l, r))>>)]

\* `!v; if (v) { 10 } else { 20 }` for every operand expression v, 0 and false
TruthinessPrograms ==
  LET vs == Operands \o <<N(0), B(FALSE)>>
  IN  [k \in 1..Len(vs) |->
         Prog(<<ES(PrefixExpression("!", vs[k])),
                ES(IfElse(vs[k], <<ES(N(10))>>, <<ES(N(20))>>))>>)]

\* programs that call push and rest on arrays bound to names
ArrayPrograms == <<
  \* let a = [1, 2]; let b = push(a, 3); let c = rest(a); push(b, 4); rest(c); a
  Prog(<<Let("a", Arr(<<N(1), N(2)>>)),
         Let("b", Call(V("push"), <<V("a"), N(3)>>)),
         Let("c", Call(V("rest"), <<V("a")>>)),
         ES(Call(V("push"), <<V("b"), N(4)>>)),
         ES(Call(V("rest"), <<V("c")>>)),
         ES(V("a"))>>),
  \* let a = [1, 2, 3]; let f = fn(x) { push(x, 4) }; f(a); rest(rest(a)); a
  Prog(<<Let("a", Arr(<<N(1), N(2), N(3)>>)),
         Let("f", Fn(<<"x">>, <<ES(Call(V("push"), <<V("x"), N(4)>>))>>)),
         ES(Call(V("f"), <<V("a")>>)),
         ES(Call(V("rest"), <<Call(V("rest"), <<V("a")>>)>>)),
         ES(V("a"))>>),
  \* let a = []; push(a, a); rest(a); a
  Prog(<<Let("a", Arr(<<>>)),
         ES(Call(V("push"), <<V("a"), V("a")>>)),
         ES(Call(V("rest"), <<V("a")>>)),
         ES(V("a"))>>)
>>

\* `{}[v]; {1: 10, true: 20, "a": 30, "true": 40}[v]` for every operand
\* expression v and 2, false, "1", "true", 1 / 2
HashIndexPrograms ==
  LET vs == Operands \o <<N(2), B(FALSE), S("1"), S("true"), Bin("/", N(1), N(2))>>
  IN  [k \in 1..Len(vs) |->
         Prog(<<ES(Idx(HashLiteral(<<>>), vs[k])),
                ES(Idx(HashLiteral(<< <<N(1), N(10)>>, <<B(TRUE), N(20)>>,
                                      <<S("a"), N(30)>>, <<S("true"), N(40)>> >>),
                       vs[k]))>>)]

\* hash literals whose keys are equal, or differ in type or in value only
HashKeyPrograms == <<
  \* {1: 10, "1": 20, true: 30, "true": 40, 1: 50, "true": 60}
  Prog(<<ES(HashLiteral(<< <<N(1), N(10)>>, <<S("1"), N(20)>>, <<B(TRUE), N(30)>>,
                           <<S("true"), N(40)>>, <<N(1), N(50)>>, <<S("true"), N(60)>> >>))>>),
  \* {"a": 1, "b": 2, "a": 3}["a"]
  Prog(<<ES(Idx(HashLiteral(<< <<S("a"), N(1)>>, <<S("b"), N(2)>>, <<S("a"), N(3)>> >>),
                S("a")))>>),
  \* {2 - 1: 10, 1: 20, !false: 30, true: 40}
  Prog(<<ES(HashLiteral(<< <<Bin("-", N(2), N(1)), N(10)>>, <<N(1), N(20)>>,
                           <<PrefixExpression("!", B(FALSE)), N(30)>>,
                           <<B(TRUE), N(40)>> >>))>>),
  \* {1: 10, 1 / 2: 20, 0: 30}
  Prog(<<ES(HashLiteral(<< <<N(1), N(10)>>, <<Bin("/", N(1), N(2)), N(20)>>,
                           <<N(0), N(30)>> >>))>>)
>>

Programs ==
  ErrorPrograms \o FunctionPrograms \o ReturnPrograms \o ValuePrograms
  \o DivisionPrograms \o ArithmeticPrograms \o InfixPrograms \o TruthinessPrograms
  \o ArrayPrograms \o HashIndexPrograms \o HashKeyPrograms

(***************************************************************************)
(* REPL input lines: what parser.parseProgram() gives for each text, the   *)
(* Program or the ParseError it throws                                     *)
(***************************************************************************)
ParseError(name) == [type |-> "ParseError", name |-> name]

Lines == <<
  \* let x = 5;
  Prog(<<Let("x", N(5))>>),
  \* let x = 7;
  Prog(<<Let("x", N(7))>>),
  \* x
  Prog(<<ES(V("x"))>>),
  \* let f = fn(a) { a + x };
  Prog(<<Let("f", Fn(<<"a">>, <<ES(Bin("+", V("a"), V("x")))>>))>>),
  \* f(1)
  Prog(<<ES(Call(V("f"), <<N(1)>>))>>),
  \* let = 5;
  ParseError("UnexpectedTokenError"),
  \* x + true
  Prog(<<ES(Bin("+", V("x"), B(TRUE)))>>),
  \* let x = [1, 2][1 / 2];
  Prog(<<Let("x", Idx(Arr(<<N(1), N(2)>>), Bin("/", N(1), N(2))))>>),
  \* let y = x;
  Prog(<<Let("y", V("x"))>>),
  \* y
  Prog(<<ES(V("y"))>>),
  \* [1, 2][1 / 2]
  Prog(<<ES(Idx(Arr(<<N(1), N(2)>>), Bin("/", N(1), N(2))))>>),
  \* let g = fn() { let x = 1; x }; g()
  Prog(<<Let("g", Fn(<<>>, <<Let("x", N(1)), ES(V("x"))>>)), ES(Call(V("g"), <<>>))>>),
  \* -[1, 2][1 / 2]
  Prog(<<ES(PrefixExpression("-", Idx(Arr(<<N(1), N(2)>>), Bin("/", N(1), N(2)))))>>)
>>

(***************************************************************************)
(* Texts: the inputs of the Lexer and of the Parser                        *)
(***************************************************************************)
\* texts given to a Lexer alone
LexerTexts == {
  \* (empty input)
  <<>>,
  \* let five = 5;
  <<"l", "e", "t", " ", "f", "i", "v", "e", " ", "=", " ", "5", ";">>,
  \* a == b != !c = d
  <<"a", " ", "=", "=", " ", "b", " ", "!", "=", " ", "!", "c", " ", "=", " ", "d">>,
  \*  \t\n\r x \n
  <<" ", "\t", "\n", "\r", " ", "x", " ", "\n">>,
  \* "foobar" ""
  <<"\"", "f", "o", "o", "b", "a", "r", "\"", " ", "\"", "\"">>,
  \* "a b"
  <<"\"", "a", " ", "b", "\"">>,
  \* fn(x, y) { x + y } [1, 2] < > - / *
  <<"f", "n", "(", "x", ",", " ", "y", ")", " ", "{", " ", "x", " ", "+", " ", "y",
    " ", "}", " ", "[", "1", ",", " ", "2", "]", " ", "<", " ", ">", " ", "-", " ",
    "/", " ", "*">>,
  \* if (true) { return false } else { 10 }
  <<"i", "f", " ", "(", "t", "r", "u", "e", ")", " ", "{", " ", "r", "e", "t", "u",
    "r", "n", " ", "f", "a", "l", "s", "e", " ", "}", " ", "e", "l", "s", "e", " ",
    "{", " ", "1", "0", " ", "}">>,
  \* constructor
  <<"c", "o", "n", "s", "t", "r", "u", "c", "t", "o", "r">>,
  \* "ab
  <<"\"", "a", "b">>,
  \* a@b
  <<"a", "@", "b">>,
  \* {"a": 1}
  <<"{", "\"", "a", "\"", ":", " ", "1", "}">>,
  \* 12ab 007
  <<"1", "2", "a", "b", " ", "0", "0", "7">>,
  \* a\0b
  <<"a", NUL, "b">>,
  \* "
  <<"\"">>
}

\* texts given to a Parser: statements and expressions of every kind
\* let f = fn(a, b) { a + b; [a, b] }; f(1, 2); {}: every while loop of the Parser runs
LoopsText ==
  <<"l", "e", "t", " ", "f", " ", "=", " ", "f", "n", "(", "a", ",", " ", "b", ")", " ",
    "{", " ", "a", " ", "+", " ", "b", ";", " ", "[", "a", ",", " ", "b", "]", " ", "}",
    ";", " ", "f", "(", "1", ",", " ", "2", ")", ";", " ", "{", "}">>

StatementTexts == {
  LoopsText,
  \* (empty input)
  <<>>,
  \* let five = 5; five
  <<"l", "e", "t", " ", "f", "i", "v", "e", " ", "=", " ", "5", ";", " ", "f", "i",
    "v", "e">>,
  \* return 10;
  <<"r", "e", "t", "u", "r", "n", " ", "1", "0", ";">>,
  \* fn(x, y) { x + y }; fn() { }
  <<"f", "n", "(", "x", ",", " ", "y", ")", " ", "{", " ", "x", " ", "+", " ", "y",
    " ", "}", ";", " ", "f", "n", "(", ")", " ", "{", " ", "}">>,
  \* if (x < y) { x } else { y }
  <<"i", "f", " ", "(", "x", " ", "<", " ", "y", ")", " ", "{", " ", "x", " ", "}",
    " ", "e", "l", "s", "e", " ", "{", " ", "y", " ", "}">>,
  \* if (x) { x }
  <<"i", "f", " ", "(", "x", ")", " ", "{", " ", "x", " ", "}">>,
  \* add(1, 2 * 3)
  <<"a", "d", "d", "(", "1", ",", " ", "2", " ", "*", " ", "3", ")">>,
  \* [1, 2][0]; []
  <<"[", "1", ",", " ", "2", "]", "[", "0", "]", ";", " ", "[", "]">>,
  \* (1 + 2) * 3
  <<"(", "1", " ", "+", " ", "2", ")", " ", "*", " ", "3">>,
  \* !true; -5; "ab"
  <<"!", "t", "r", "u", "e", ";", " ", "-", "5", ";", " ", "\"", "a", "b", "\"">>,
  \* a; ; b
  <<"a", ";", " ", ";", " ", "b">>,
  \* fn(1) { x
  <<"f", "n", "(", "1", ")", " ", "{", " ", "x">>,
  \* constructor
  <<"c", "o", "n", "s", "t", "r", "u", "c", "t", "o", "r">>,
  \* @
  <<"@">>
}

\* texts in which a required token is missing, one or more for every place
\* where the Parser requires one
UnexpectedTexts == {
  \* let 5 = 1;
  <<"l", "e", "t", " ", "5", " ", "=", " ", "1", ";">>,
  \* let a 5
  <<"l", "e", "t", " ", "a", " ", "5">>,
  \* fn x
  <<"f", "n", " ", "x">>,
  \* fn(a b) { }
  <<"f", "n", "(", "a", " ", "b", ")", " ", "{", " ", "}">>,
  \* fn(a) 1
  <<"f", "n", "(", "a", ")", " ", "1">>,
  \* (1 + 2
  <<"(", "1", " ", "+", " ", "2">>,
  \* (1 2)
  <<"(", "1", " ", "2", ")">>,
  \* [1, 2
  <<"[", "1", ",", " ", "2">>,
  \* f(1 2)
  <<"f", "(", "1", " ", "2", ")">>,
  \* a[1
  <<"a", "[", "1">>,
  \* if a
  <<"i", "f", " ", "a">>,
  \* if (a {
  <<"i", "f", " ", "(", "a", " ", "{">>,
  \* if (a) 1
  <<"i", "f", " ", "(", "a", ")", " ", "1">>,
  \* if (a) { 1 } else 2
  <<"i", "f", " ", "(", "a", ")", " ", "{", " ", "1", " ", "}", " ", "e", "l", "s",
    "e", " ", "2">>,
  \* {1 2}
  <<"{", "1", " ", "2", "}">>,
  \* {1: 2}
  <<"{", "1", ":", " ", "2", "}">>
}

\* texts of operands with prefix operators, calls and indexes between binary
\* operators, without parentheses that group
PrefixTexts == {
  \* -a + b
  <<"-", "a", " ", "+", " ", "b">>,
  \* !a == b
  <<"!", "a", " ", "=", "=", " ", "b">>,
  \* a * -b
  <<"a", " ", "*", " ", "-", "b">>,
  \* a + !b - c
  <<"a", " ", "+", " ", "!", "b", " ", "-", " ", "c">>,
  \* -a(b)
  <<"-", "a", "(", "b", ")">>,
  \* !a[b]
  <<"!", "a", "[", "b", "]">>,
  \* a + b(c)
  <<"a", " ", "+", " ", "b", "(", "c", ")">>,
  \* a * b[c]
  <<"a", " ", "*", " ", "b", "[", "c", "]">>,
  \* a(b)[c]
  <<"a", "(", "b", ")", "[", "c", "]">>,
  \* a[b](c)
  <<"a", "[", "b", "]", "(", "c", ")">>,
  \* -a(b) * !c[d]
  <<"-", "a", "(", "b", ")", " ", "*", " ", "!", "c", "[", "d", "]">>,
  \* a[b] + c(d) * -e
  <<"a", "[", "b", "]", " ", "+", " ", "c", "(", "d", ")", " ", "*", " ", "-", "e">>,
  \* !-a
  <<"!", "-", "a">>,
  \* a(b)(c) - d[e][f]
  <<"a", "(", "b", ")", "(", "c", ")", " ", "-", " ", "d", "[", "e", "]", "[", "f",
    "]">>
}

\* the binary operators, each the characters of its text
BinaryOperators ==
  << <<"=", "=">>, <<"!", "=">>, <<"<">>, <<">">>, <<"+">>, <<"-">>, <<"*">>, <<"/">> >>

OperandNames == <<"a", "b", "c", "d", "e", "f">>

\* the sequences of at most MaxOperators binary operators, by their indexes
OperatorSeqs == UNION {[1..n -> 1..Len(BinaryOperators)] : n \in 1..MaxOperators}

\* the text `a op1 b op2 c ...` of ops, from the i-th operator on
RECURSIVE FlatFrom(_, _)
FlatFrom(ops, i) ==
  IF i > Len(ops) THEN <<>>
  ELSE <<" ">> \o BinaryOperators[ops[i]] \o <<" ", OperandNames[i + 1]>>
       \o FlatFrom(ops, i + 1)

FlatText(ops) == <<OperandNames[1]>> \o FlatFrom(ops, 1)

\* `a op1 b op2 c ...` for every sequence of one to MaxOperators operators
PrecedenceTexts == {FlatText(ops) : ops \in OperatorSeqs}

\* the keys of the hash literal texts: "one", 1, true, a
HashKeys == <<
  [text |-> <<Quote, "o", "n", "e", Quote>>, node |-> StringLiteral("one")],
  [text |-> <<"1">>, node |-> IntegerLiteral(1)],
  [text |-> <<"t", "r", "u", "e">>, node |-> BooleanLiteral(TRUE)],
  [text |-> <<"a">>, node |-> Identifier("a")]
>>

\* the sequences of at most MaxPairs keys, by their indexes
HashKeySeqs == UNION {[1..n -> 1..Len(HashKeys)] : n \in 0..MaxPairs}

\* the pairs `key: i` of ks from the i-th on, separated by `, `
RECURSIVE HashPairsFrom(_, _)
HashPairsFrom(ks, i) ==
  IF i > Len(ks) THEN <<>>
  ELSE HashKeys[ks[i]].text \o <<":", " ", Digits[i + 1]>>
       \o (IF i < Len(ks) THEN <<",", " ">> ELSE <<>>) \o HashPairsFrom(ks, i + 1)

\* the text `{key: 1, key: 2, ...}` of ks
HashText(ks) == <<"{">> \o HashPairsFrom(ks, 1) \o <<"}">>

HashTexts == {HashText(ks) : ks \in HashKeySeqs}

\* texts with a block whose closing `}` is missing before the end of input
UnclosedBlockTexts == {
  \* fn() { x
  <<"f", "n", "(", ")", " ", "{", " ", "x">>,
  \* fn(a) { a; 1
  <<"f", "n", "(", "a", ")", " ", "{", " ", "a", ";", " ", "1">>,
  \* if (x) { x
  <<"i", "f", " ", "(", "x", ")", " ", "{", " ", "x">>,
  \* if (x) { x } else { y
  <<"i", "f", " ", "(", "x", ")", " ", "{", " ", "x", " ", "}", " ", "e", "l", "s",
    "e", " ", "{", " ", "y">>,
  \* fn() { if (x) { y }
  <<"f", "n", "(", ")", " ", "{", " ", "i", "f", " ", "(", "x", ")", " ", "{", " ",
    "y", " ", "}">>,
  \* if (a) { fn() { 1 }
  <<"i", "f", " ", "(", "a", ")", " ", "{", " ", "f", "n", "(", ")", " ", "{", " ",
    "1", " ", "}">>,
  \* let f = fn(a) { return a;
  <<"l", "e", "t", " ", "f", " ", "=", " ", "f", "n", "(", "a", ")", " ", "{", " ",
    "r", "e", "t", "u", "r", "n", " ", "a", ";">>
}

\* function literals whose parameter lists hold identifiers and other tokens
ParameterTexts == {
  \* fn(1) { }
  <<"f", "n", "(", "1", ")", " ", "{", " ", "}">>,
  \* fn(a, true) { a }
  <<"f", "n", "(", "a", ",", " ", "t", "r", "u", "e", ")", " ", "{", " ", "a", " ", "}">>,
  \* fn("s") { }
  <<"f", "n", "(", "\"", "s", "\"", ")", " ", "{", " ", "}">>,
  \* fn(@) { }
  <<"f", "n", "(", "@", ")", " ", "{", " ", "}">>,
  \* fn(a, 2, b) { b }
  <<"f", "n", "(", "a", ",", " ", "2", ",", " ", "b", ")", " ", "{", " ", "b", " ", "}">>,
  \* fn(a, b, c) { b }
  <<"f", "n", "(", "a", ",", " ", "b", ",", " ", "c", ")", " ", "{", " ", "b", " ", "}">>,
  \* fn(-a) { }
  <<"f", "n", "(", "-", "a", ")", " ", "{", " ", "}">>
}

ParserTexts ==
  StatementTexts \cup UnexpectedTexts \cup PrefixTexts \cup PrecedenceTexts \cup HashTexts
    \cup UnclosedBlockTexts \cup ParameterTexts

(***************************************************************************)
(* Drivers: runFile (cli/runFile.ts), the REPL (cli/repl.ts), and callers  *)
(* of the Lexer and of the Parser alone                                    *)
(***************************************************************************)
frontVars == <<lexer, tokens, parser, parsed, printed>>
evalVars == <<lines, heap, arrays, ctl, stack, out>>

\* no object yet
NoLexer == [type |-> "null"]
NoParser == [type |-> "null"]
NotParsed == [type |-> "null"]

NoOutput == [stream |-> "none"]
ConsoleLog(text) == [stream |-> "log", text |-> text]
ConsoleError(text) == [stream |-> "error", text |-> text]

\* the REPL's `env`
GlobalEnv == 1

\* evaluate(program, env) has returned to the driver
Evaluated == pc = "evaluate" /\ ctl.mode = "ret" /\ stack = <<>>

Init ==
  /\ driver \in {"runFile", "repl", "lexer", "parser"}
  /\ pc = (IF driver = "repl" THEN "prompt" ELSE "start")
  /\ input \in (CASE driver = "runFile" -> 1..Len(Programs)
                   [] driver = "repl" -> {0}
                   [] driver = "lexer" -> LexerTexts
                   [] driver = "parser" -> ParserTexts)
  /\ lines = 0
  \* startRepl: const env = new Environment()
  /\ heap = (IF driver = "repl" THEN NewEnvironment(<<>>, NoOuter) ELSE <<>>)
  /\ arrays = <<>>
  /\ ctl = Idle
  /\ stack = <<>>
  /\ out = NoOutput
  /\ lexer = NoLexer
  /\ tokens = <<>>
  /\ parser = NoParser
  /\ parsed = NotParsed
  /\ printed = <<>>

\* runFile: new Environment, parseProgram, evaluate(program, env)
RunFileStart ==
  /\ driver = "runFile" /\ pc = "start"
  /\ heap' = NewEnvironment(heap, NoOuter)
  /\ ctl' = Eval(Programs[input], Len(heap'))
  /\ pc' = "evaluate"
  /\ UNCHANGED <<frontVars, driver, input, lines, arrays, stack, out>>

\* runFile: evaluate returned; its result is dropped
RunFileDone ==
  /\ driver = "runFile" /\ Evaluated
  /\ ctl' = Idle
  /\ pc' = "done"
  /\ UNCHANGED <<frontVars, driver, input, lines, heap, arrays, stack, out>>

\* runFile: catch (e)
RunFileCatch ==
  /\ driver = "runFile" /\ pc = "evaluate" /\ ctl.mode = "throw"
  /\ out' = ConsoleError(ctl.name)
  /\ ctl' = Idle
  /\ pc' = "done"
  /\ UNCHANGED <<frontVars, driver, input, lines, heap, arrays, stack>>

\* rl.on("line"): the line parses, evaluate(program, env) starts
ReplLine ==
  /\ driver = "repl" /\ pc = "prompt" /\ lines < MaxLines
  /\ \E i \in 1..Len(Lines) :
       /\ Lines[i].type = "Program"
       /\ input' = i
       /\ ctl' = Eval(Lines[i], GlobalEnv)
  /\ lines' = lines + 1
  /\ pc' = "evaluate"
  /\ UNCHANGED <<frontVars, driver, heap, arrays, stack, out>>

\* rl.on("line"): parseProgram throws, catch (e) prints the message
ReplParseError ==
  /\ driver = "repl" /\ pc = "prompt" /\ lines < MaxLines
  /\ \E i \in 1..Len(Lines) :
       /\ Lines[i].type = "ParseError"
       /\ input' = i
       /\ out' = ConsoleError(Lines[i].name)
  /\ lines' = lines + 1
  /\ UNCHANGED <<frontVars, driver, pc, heap, arrays, ctl, stack>>

\* console.log(evaluated.inspect())
ReplPrint ==
  /\ driver = "repl" /\ Evaluated
  /\ ~Thrown(inspect(ctl.val))
  /\ out' = ConsoleLog(inspect(ctl.val).value)
  /\ ctl' = Idle
  /\ pc' = "prompt"
  /\ UNCHANGED <<frontVars, driver, input, lines, heap, arrays, stack>>

\* evaluated.inspect() throws, catch (e) prints the message
ReplInspectThrows ==
  /\ driver = "repl" /\ Evaluated
  /\ Thrown(inspect(ctl.val))
  /\ out' = ConsoleError(inspect(ctl.val).name)
  /\ ctl' = Idle
  /\ pc' = "prompt"
  /\ UNCHANGED <<frontVars, driver, input, lines, heap, arrays, stack>>

\* evaluate throws, catch (e) prints the message
ReplCatch ==
  /\ driver = "repl" /\ pc = "evaluate" /\ ctl.mode = "throw"
  /\ out' = ConsoleError(ctl.name)
  /\ ctl' = Idle
  /\ pc' = "prompt"
  /\ UNCHANGED <<frontVars, driver, input, lines, heap, arrays, stack>>

\* const lexer = new Lexer(input)
LexerNew ==
  /\ driver = "lexer" /\ pc = "start"
  /\ lexer' = NewLexer(input)
  /\ pc' = "tokens"
  /\ UNCHANGED <<driver, input, tokens, parser, parsed, printed, evalVars>>

\* lexer.getNextToken()
LexerGetNextToken ==
  /\ driver = "lexer" /\ pc = "tokens" /\ Len(tokens) < MaxCalls
  /\ LET returned == getNextToken(lexer)
         skipped == substring(input, lexer.position, skipWhitespace(lexer).position)
     IN  /\ tokens' = Append(tokens, [whitespace |-> skipped, token |-> returned.token])
         /\ lexer' = returned.lexer
  /\ UNCHANGED <<driver, pc, input, parser, parsed, printed, evalVars>>

\* const parser = new Parser(new Lexer(input))
ParserNew ==
  /\ driver = "parser" /\ pc = "start"
  /\ parser' = NewParser(NewLexer(input))
  /\ pc' = "parse"
  /\ UNCHANGED <<driver, input, lexer, tokens, parsed, printed, evalVars>>

\* parser.parseProgram(): the Program it returns or the ParseError it throws;
\* a call that never returns leaves its caller where it is
ParseProgram ==
  /\ driver = "parser" /\ pc = "parse"
  /\ parsed' = parseProgram(parser)
  /\ parser' = parsed'.p
  /\ pc' = IF Diverged(parsed') THEN "parse" ELSE "done"
  /\ UNCHANGED <<driver, input, lexer, tokens, printed, evalVars>>

\* print(program), for the Program that parseProgram() returned
PrintProgram ==
  /\ driver = "parser" /\ pc = "done" /\ parsed.ok
  /\ Len(printed) < MaxRounds
  /\ printed' = Append(printed, print(parsed.node))
  /\ pc' = "printed"
  /\ UNCHANGED <<driver, input, lexer, tokens, parser, parsed, evalVars>>

\* the printed text is the next input: new Parser(new Lexer(print(program)))
ParserNewPrinted ==
  /\ driver = "parser" /\ pc = "printed"
  /\ printed[Len(printed)].type = "string"
  /\ input' = printed[Len(printed)].value
  /\ parser' = NewParser(NewLexer(input'))
  /\ parsed' = NotParsed
  /\ pc' = "parse"
  /\ UNCHANGED <<driver, lexer, tokens, printed, evalVars>>

Next ==
  \/ RunFileStart \/ RunFileDone \/ RunFileCatch
  \/ ReplLine \/ ReplParseError \/ ReplPrint \/ ReplInspectThrows \/ ReplCatch
  \/ Evaluate
  \/ LexerNew \/ LexerGetNextToken
  \/ ParserNew \/ ParseProgram \/ PrintProgram \/ ParserNewPrinted

Spec == Init /\ [][Next]_vars

(***************************************************************************)
(* Properties                                                              *)
(***************************************************************************)
\* evalExpressions hands an Error to its caller as the one-element array [error]
Propagating(v) ==
  IF v.type = "array" THEN Len(v.items) = 1 /\ isError(v.items[1]) ELSE isError(v)
PropagatedError(v) == IF v.type = "array" THEN v.items[1] ELSE v

\* C1: error short-circuit.  Once a sub-evaluation has returned an Error
\* to a waiting activation (a program, block, let, return, operand, callee,
\* argument list, array element list, hash pair, condition or call), the next
\* step is that activation returning the same Error to its own caller: it
\* evaluates no further node (no sibling to the right, no later statement)
\* and changes no Environment.  By induction the Error is what evaluate
\* returns for the Program.
ErrorShortCircuit ==
  [][(ctl.mode = "ret" /\ stack # <<>> /\ Propagating(ctl.val))
       => /\ ctl'.mode = "ret"
          /\ Propagating(ctl'.val)
          /\ PropagatedError(ctl'.val) = PropagatedError(ctl.val)
          /\ stack' = Pop
          /\ heap' = heap]_vars

\* a program whose last statement is a `let` has returned an Error and the
\* `let` has bound nothing
ErrorShortCircuitWitness ==
  /\ driver = "runFile" /\ Evaluated /\ isError(ctl.val)
  /\ LET statements == Programs[input].statements
         lastStatement == statements[Len(statements)]
     IN  /\ Len(statements) > 1
         /\ lastStatement.type = "LetStatement"
         /\ lastStatement.name.value \notin DOMAIN heap[1].store

\* the Environments a read in env can reach: env, its outer, and so on
RECURSIVE Scope(_, _)
Scope(h, env) == IF env = NoOuter THEN {} ELSE {env} \cup Scope(h, h[env].outer)

\* the step is applyFunction entering the body of a user-defined function
CallsFunction ==
  /\ Returning("CallExpression.arguments")
  /\ Top.func.type = "MFunction"
  /\ ctl'.mode = "eval"

\* C2: lexical scoping.  A function literal yields a Function holding the
\* Environment it was evaluated in; every call of a user-defined function
\* evaluates the body in a new Environment whose outer is that Environment
\* (whatever Environment the call was made from) and leaves the existing
\* Environments as they are; and an identifier that no Environment of the
\* lexical chain binds (and that names no built-in) reads as "identifier not
\* found", also when a caller's call Environment binds it.
LexicalScoping ==
  [][/\ Evaluating("FunctionLiteral") => ctl'.val.env = ctl.env
     /\ CallsFunction
          => /\ Len(heap') = Len(heap) + 1
             /\ ctl'.env = Len(heap')
             /\ ctl'.node = Top.func.body
             /\ heap'[ctl'.env].outer = Top.func.env
             /\ SubSeq(heap', 1, Len(heap)) = heap
     /\ (/\ Evaluating("Identifier")
         /\ ctl.node.value \notin BuiltinNames
         /\ \A e \in Scope(heap, ctl.env) : ctl.node.value \notin DOMAIN heap[e].store)
          => ctl'.val = EvaluationError("IdentifierNotFoundError",
                                        "Identifier not found: " \o ctl.node.value)]_vars

\* inside nested calls, reading a name that a caller's call Environment binds
\* has yielded "identifier not found"
LexicalScopingWitness ==
  /\ ctl.mode = "ret"
  /\ CallDepth >= 2
  /\ \E i \in 1..Len(stack) :
       /\ stack[i].fn = "applyFunction"
       /\ \E name \in DOMAIN heap[stack[i].extendedEnv].store :
            ctl.val = EvaluationError("IdentifierNotFoundError",
                                      "Identifier not found: " \o name)

\* the innermost running call of a user-defined function
CallFrames == {i \in 1..Len(stack) : stack[i].fn = "applyFunction"}
InnermostCall == stack[CHOOSE i \in CallFrames : \A j \in CallFrames : j <= i]

\* the step reads an identifier directly in the body of the innermost call
ReadsInBody ==
  /\ Evaluating("Identifier")
  /\ CallFrames # {}
  /\ ctl.env = InnermostCall.extendedEnv

\* C3: capture by reference.  Evaluating a function literal makes no new
\* Environment: the Function holds the very Environment the literal was
\* evaluated in.  So when the body of a call reads a name that the call's
\* own Environment does not bind and the function's defining Environment
\* binds, it obtains the binding the defining Environment holds at the time
\* of the read, whether that binding was made before or after the literal
\* was evaluated.
CaptureByReference ==
  [][/\ Evaluating("FunctionLiteral") => (ctl'.val.env = ctl.env /\ heap' = heap)
     /\ (/\ ReadsInBody
         /\ ctl.node.value \notin DOMAIN heap[ctl.env].store
         /\ ctl.node.value \in DOMAIN heap[InnermostCall.func.env].store
         /\ Truthy(heap[InnermostCall.func.env].store[ctl.node.value]))
          => ctl'.val = heap[InnermostCall.func.env].store[ctl.node.value]]_vars

\* recursion: the body of a running function has read, as the callee of a
\* call, the name its own Function was bound to after the literal was evaluated
CaptureByReferenceWitness ==
  /\ Returning("CallExpression.function")
  /\ CallFrames # {}
  /\ Top.env = InnermostCall.extendedEnv
  /\ ctl.val = InnermostCall.func

\* C4: parameter shadowing.  In a call of a user-defined function, reading a
\* parameter name in the body yields what the call bound the parameter to
\* (or "identifier not found" when the call bound it to no value), never a
\* binding of an enclosing Environment.
ParameterShadowing ==
  [][(/\ ReadsInBody
      /\ \E p \in 1..Len(InnermostCall.func.parameters) :
           InnermostCall.func.parameters[p].value = ctl.node.value)
       => LET bound == heap[ctl.env].store[ctl.node.value]
          IN  IF Truthy(bound) THEN ctl'.val = bound
              ELSE ctl'.val = EvaluationError("IdentifierNotFoundError",
                                              "Identifier not found: " \o ctl.node.value)]_vars

\* C5: frame effect of Environment.set.  While a call of a user-defined
\* function runs, and so when it returns, every Environment that existed when
\* the call was made (the defining Environment and its outers among them)
\* holds exactly the bindings it held then.
SetIsLocal ==
  \A i \in 1..Len(stack) :
     stack[i].fn = "applyFunction"
       => SubSeq(heap, 1, Len(stack[i].heap0)) = stack[i].heap0

\* a call is returning whose body has executed `let` on a name that the
\* defining Environment binds to another value
SetIsLocalWitness ==
  /\ Returning("applyFunction")
  /\ \E name \in DOMAIN heap[Top.extendedEnv].store :
       /\ \A p \in 1..Len(Top.func.parameters) : Top.func.parameters[p].value # name
       /\ name \in DOMAIN heap[Top.func.env].store
       /\ heap[Top.func.env].store[name] # heap[Top.extendedEnv].store[name]

IsReturnValue(v) == v.type = "ReturnValue"

\* the activations that use the object returned to them as a value: to bind
\* it, to store it as element, key or value, to pass it, or to operate on it
ValueUsers ==
  {"LetStatement", "evalExpressions", "evalHashLiteral.key", "evalHashLiteral.value",
   "IndexExpression.left", "IndexExpression.index", "InfixExpression.left",
   "InfixExpression.right", "PrefixExpression", "CallExpression.function"}

\* C6: the ReturnValue wrapper is never visible to user code.  No Environment
\* binds a name to a ReturnValue, and no ReturnValue is returned to an
\* activation that uses it as a value: as the value of a let, an array
\* element, a hash key or value, a callee or an argument, or an operand of a
\* prefix, infix or index operator.
ReturnValueNeverVisible ==
  /\ \A e \in 1..Len(heap) : \A name \in DOMAIN heap[e].store :
        ~IsReturnValue(heap[e].store[name])
  /\ (ctl.mode = "ret" /\ stack # <<>> /\ Top.fn \in ValueUsers) => ~IsReturnValue(ctl.val)

\* C7: the value evaluate returns for a Program, and the value a call of a
\* user-defined function produces, is never a ReturnValue.
ResultNeverReturnValue ==
  [][((Returning("evalProgram") \/ Returning("applyFunction")) /\ ctl'.mode = "ret")
       => ~IsReturnValue(ctl'.val)]_vars

\* C8: a ReturnValue made by a return statement and returned to a block
\* is returned by that block unchanged in the next step, whatever statements
\* the block has left, with no Environment changed; returned to the
\* activation of a function call or to the program it ends that call or
\* the program with the wrapped value as the result.  So a return inside
\* nested if-expressions used as expression statements, whose blocks are
\* stacked directly on each other, ends the function or the program with the
\* returned value and evaluates nothing else.
ReturnUnwinds ==
  [][/\ Returning("ReturnStatement") /\ ~isError(ctl.val)
          => (ctl' = Returns(ReturnValue(ctl.val)) /\ stack' = Pop /\ heap' = heap)
     /\ (Returning("evalBlockStatement") /\ IsReturnValue(ctl.val))
          => (ctl' = ctl /\ stack' = Pop /\ heap' = heap)
     /\ ((Returning("evalProgram") \/ Returning("applyFunction")) /\ IsReturnValue(ctl.val))
          => (ctl' = Returns(ctl.val.value) /\ stack' = Pop /\ heap' = heap)]_vars

\* inside a function call, a ReturnValue that has left the block of an inner
\* if-expression is being returned to the block of the enclosing if-expression,
\* which itself lies in the function body; both have statements left
ReturnUnwindsWitness ==
  /\ Len(stack) >= 3
  /\ Returning("evalBlockStatement") /\ IsReturnValue(ctl.val)
  /\ Top.i < Len(Top.statements)
  /\ stack[Len(stack) - 1].fn = "evalBlockStatement"
  /\ stack[Len(stack) - 1].i < Len(stack[Len(stack) - 1].statements)
  /\ stack[Len(stack) - 2].fn = "applyFunction"

\* the step is a `let` binding a name in the REPL's Environment
BindsGlobal ==
  Returning("LetStatement") /\ Top.env = GlobalEnv /\ ~isError(ctl.val)

\* C9: REPL session persistence.  In a REPL session the shared Environment
\* changes only when a `let` executed in it binds a name (not when a line
\* fails to parse, evaluates to an Error or throws), and a read in the shared
\* Environment of a name it binds obtains the object it is bound to.
SessionPersistence ==
  [][driver = "repl"
       => /\ ~BindsGlobal => heap'[GlobalEnv] = heap[GlobalEnv]
          /\ BindsGlobal
               => heap'[GlobalEnv].store = MapSet(heap[GlobalEnv].store, Top.name, ctl.val)
          /\ (/\ Evaluating("Identifier")
              /\ ctl.env = GlobalEnv
              /\ ctl.node.value \in DOMAIN heap[GlobalEnv].store)
               => ctl'.val = heap[GlobalEnv].store[ctl.node.value]]_vars

\* C10: integer division truncates.  For Integer operands a and b, b # 0,
\* `a / b` yields the Integer whose value is the quotient of a by b truncated
\* toward zero.
DivisionTruncates ==
  [][(/\ Returning("InfixExpression.right")
      /\ Top.operator = "/"
      /\ Top.left.type = "Integer" /\ ctl.val.type = "Integer"
      /\ ctl.val.value.n # 0)
       => ctl' = Returns(Integer(Whole(Trunc(NumDiv(Top.left.value, ctl.val.value)))))]_vars

\* a runtime object, as opposed to JavaScript undefined
IsObject(v) == v.type # "undefined"

\* the operators a runtime type defines
Defines(type) ==
  CASE type = "MBoolean" -> {"==", "!="}
    [] type = "MString" -> {"+"}
    [] type = "Integer" -> {"+", "-", "*", "/", "<", ">", "==", "!="}
    [] OTHER -> {}

\* C11: infix dispatch by runtime type pairing.  For every operator and
\* every pair of non-Error operand objects the infix expression returns an
\* object, which is a "type mismatch" Error exactly when the operands have
\* different runtime types and an "unknown operator" Error exactly when they
\* have the same runtime type and that type does not define the operator.
InfixDispatch ==
  [][(/\ Returning("InfixExpression.right")
      /\ IsObject(Top.left) /\ IsObject(ctl.val)
      /\ ~isError(ctl.val))
       => /\ ctl'.mode = "ret"
          /\ (ctl'.val.type = "TypeMismatchError") <=> (Top.left.type # ctl.val.type)
          /\ (ctl'.val.type = "UnknownOperatorError")
               <=> (Top.left.type = ctl.val.type
                    /\ Top.operator \notin Defines(ctl.val.type))]_vars

\* C12: truthiness is the same for `!` and `if`.  For every object v, `!v`
\* is the true singleton when v is the Null or the false singleton and the
\* false singleton otherwise, and an if-expression whose condition is v takes
\* its alternative (Null when it has none) in exactly the same cases and
\* its consequence otherwise.
TruthinessConsistent ==
  [][/\ (Returning("PrefixExpression") /\ Top.operator = "!" /\ ~isError(ctl.val))
          => ctl' = Returns(IF ctl.val \in {NULL, MFALSE} THEN MTRUE ELSE MFALSE)
     /\ (Returning("evalIfExpression") /\ ~isError(ctl.val))
          => ctl' = (IF ctl.val \notin {NULL, MFALSE}
                     THEN Eval(Top.node.consequence, Top.env)
                     ELSE IF Top.node.alternative # NoAlternative
                     THEN Eval(Top.node.alternative, Top.env)
                     ELSE Returns(NULL))]_vars

\* after `!0` was evaluated, the Integer 0 is the condition of an
\* if-expression that has both branches
TruthinessConsistentWitness ==
  /\ Returning("evalIfExpression")
  /\ ctl.val = Integer(Whole(0))
  /\ Top.node.alternative # NoAlternative
  /\ stack[1].fn = "evalProgram" /\ stack[1].i = 2
  /\ stack[1].statements[1] = ES(PrefixExpression("!", N(0)))

(* ---- array value semantics ---- *)
\* the step is a call of the built-in `push` or `rest` that returns an array
PushOrRestReturnsArray ==
  /\ Returning("CallExpression.arguments")
  /\ Top.func.type = "Builtin" /\ Top.func.fn \in {"push", "rest"}
  /\ ctl'.mode = "ret" /\ ctl'.val.type = "MArray"

\* C13: the elements of an array never change once the array exists, so a
\* name bound to it reads the same elements after any push and rest calls;
\* the array a push or rest returns is a new one, and the call changes no
\* binding
ArrayValueSemantics ==
  [][/\ \A ref \in DOMAIN arrays : ref \in DOMAIN arrays' /\ arrays'[ref] = arrays[ref]
     /\ PushOrRestReturnsArray
          => /\ ctl'.val.ref \notin DOMAIN arrays
             /\ heap' = heap]_vars

\* `let a = [1, 2]; let b = push(a, 3); let c = rest(a); push(b, 4); rest(c); a`
\* has returned the array of a, still [1, 2], and the arrays of the four
\* calls exist beside it
ArrayValueSemanticsWitness ==
  /\ driver = "runFile" /\ Evaluated
  /\ Programs[input] = ArrayPrograms[1]
  /\ ctl.val.type = "MArray"
  /\ ctl.val = heap[1].store["a"]
  /\ elementsOf(ctl.val) = <<Integer(Whole(1)), Integer(Whole(2))>>
  /\ Len(arrays) = 5
  /\ elementsOf(heap[1].store["b"]) = Append(elementsOf(ctl.val), Integer(Whole(3)))
  /\ elementsOf(heap[1].store["c"]) = Tail(elementsOf(ctl.val))

(* ---- index expressions ---- *)
\* the step is evalIndexExpression(left, index) on an object of type leftType
\* and an index that is an object and not an Error
Indexes(leftType) ==
  /\ Returning("IndexExpression.index")
  /\ IsObject(Top.left) /\ Top.left.type = leftType
  /\ IsObject(ctl.val) /\ ~isError(ctl.val)

\* C14: indexing an Array with an Integer i returns the element at position
\* i when 0 <= i < length and NULL otherwise; the result is never undefined
\* and never an Error, and nothing is thrown.
ArrayIndexSoftFails ==
  [][(Indexes("MArray") /\ ctl.val.type = "Integer")
       => LET array == elementsOf(Top.left)
              i == ctl.val.value
              at == {k \in 1..Len(array) : NumEq(i, Whole(k - 1))}
          IN  /\ ctl'.mode = "ret"
              /\ \A k \in at : ctl'.val = array[k]
              /\ at = {} => ctl'.val = NULL
              /\ IsObject(ctl'.val)
              /\ ~isError(ctl'.val)]_vars

\* C15: indexing a Hash with an Integer, Boolean or String returns the value
\* stored under that key when the Hash has the key and NULL when it has not,
\* never an Error; indexing it with an object of any other type returns an
\* InvalidHashKeyError, never NULL.
HashIndexing ==
  [][Indexes("Hash")
       => LET pairs == Top.left.pairs
              index == ctl.val
              at == {k \in 1..Len(pairs) : pairs[k].key = index}
          IN  /\ ctl'.mode = "ret"
              /\ index.type \in {"Integer", "MBoolean", "MString"}
                   => /\ \A k \in at : ctl'.val = pairs[k].value
                      /\ at = {} => ctl'.val = NULL
                      /\ ~isError(ctl'.val)
              /\ index.type \notin {"Integer", "MBoolean", "MString"}
                   => ctl'.val.type = "InvalidHashKeyError"]_vars

(* ---- lexer and parser ---- *)
\* parseProgram() has returned or thrown
ParseDone == driver = "parser" /\ pc = "done"

\* the Program of one expression statement
OneExpression(expression) == Program(<<ExpressionStatement(expression)>>)

\* the pairs of the text HashText(ks): the i-th key and the integer i
PairsOf(ks) == [i \in 1..Len(ks) |-> <<HashKeys[ks[i]].node, IntegerLiteral(i)>>]

\* C16: a text `{ key : value , ... }` with string, integer, boolean and
\* identifier keys parses into one HashLiteral whose pairs are the keys and
\* values in source order; `{}` gives no pairs.
HashLiteralParsed ==
  ParseDone =>
    \A ks \in HashKeySeqs :
      input = HashText(ks)
        => parsed.ok /\ parsed.node = OneExpression(HashLiteral(PairsOf(ks)))

\* the rung of a binary operator on the precedence ladder
Ladder(operator) ==
  CASE operator \in {"==", "!="} -> 1
    [] operator \in {"<", ">"} -> 2
    [] operator \in {"+", "-"} -> 3
    [] operator \in {"*", "/"} -> 4

\* the characters of a text without its spaces
Spaceless(text) == SelectSeq(text, LAMBDA ch : ch # " ")

\* the characters of an expression of identifiers, prefix and binary
\* operators, calls and indexes, read off the tree from left to right
RECURSIVE Yield(_)
RECURSIVE YieldAll(_, _)
YieldAll(nodes, i) ==
  IF i > Len(nodes) THEN <<>>
  ELSE Yield(nodes[i]) \o (IF i < Len(nodes) THEN <<",">> ELSE <<>>) \o YieldAll(nodes, i + 1)
Yield(node) ==
  CASE node.type = "Identifier" -> <<node.value>>
    [] node.type = "PrefixExpression" -> <<node.operator>> \o Yield(node.right)
    [] node.type = "InfixExpression" ->
         Yield(node.left)
         \o BinaryOperators[CHOOSE o \in 1..Len(BinaryOperators) :
                              Str(BinaryOperators[o]) = node.operator]
         \o Yield(node.right)
    [] node.type = "CallExpression" ->
         Yield(node.function) \o <<"(">> \o YieldAll(node.arguments, 1) \o <<")">>
    [] node.type = "IndexExpression" ->
         Yield(node.left) \o <<"[">> \o Yield(node.index) \o <<"]">>

\* every operator of the tree groups tighter than the operator above it:
\* under a binary operator the left operand is no binary operator of a lower
\* rung and the right operand no binary operator of a lower or the same rung;
\* the operand of a prefix operator is no binary operator; what is called or
\* indexed is neither a binary nor a prefix operator
RECURSIVE Grouped(_)
Grouped(node) ==
  CASE node.type = "Identifier" -> TRUE
    [] node.type = "PrefixExpression" ->
         node.right.type # "InfixExpression" /\ Grouped(node.right)
    [] node.type = "InfixExpression" ->
         /\ node.left.type = "InfixExpression"
              => Ladder(node.left.operator) >= Ladder(node.operator)
         /\ node.right.type = "InfixExpression"
              => Ladder(node.right.operator) > Ladder(node.operator)
         /\ Grouped(node.left) /\ Grouped(node.right)
    [] node.type = "CallExpression" ->
         /\ node.function.type \notin {"InfixExpression", "PrefixExpression"}
         /\ Grouped(node.function)
         /\ \A i \in 1..Len(node.arguments) : Grouped(node.arguments[i])
    [] node.type = "IndexExpression" ->
         /\ node.left.type \notin {"InfixExpression", "PrefixExpression"}
         /\ Grouped(node.left) /\ Grouped(node.index)

\* C17: a text of operands and operators without grouping parentheses parses
\* into one expression that reads as the text from left to right, in which a
\* binary operator of a higher rung (== != below < > below + - below * /)
\* groups tighter than one of a lower rung, binary operators of the same rung
\* group left to right, and prefix operators, calls and indexes group tighter
\* than binary operators, calls and indexes tighter than prefix operators.
PrecedenceAndAssociativity ==
  (ParseDone /\ input \in PrecedenceTexts \cup PrefixTexts)
    => /\ parsed.ok
       /\ Len(parsed.node.statements) = 1
       /\ parsed.node.statements[1].type = "ExpressionStatement"
       /\ Yield(parsed.node.statements[1].expression) = Spaceless(input)
       /\ Grouped(parsed.node.statements[1].expression)

\* `a + b * c - d` has parsed into ((a + (b * c)) - d)
PrecedenceAndAssociativityWitness ==
  /\ ParseDone
  /\ Str(input) = "a + b * c - d"
  /\ parsed.ok
  /\ parsed.node =
       OneExpression(
         InfixExpression("-",
           InfixExpression("+", Identifier("a"),
             InfixExpression("*", Identifier("b"), Identifier("c"))),
           Identifier("d")))

\* C18: when the Parser requires a token type and finds another, it throws an
\* UnexpectedTokenError whose `expected` is the type it required and whose
\* `actual` is the type of the token it found.
UnexpectedTokenReported ==
  (ParseDone /\ ~parsed.ok /\ parsed.required # "")
    => /\ parsed.error.name = "UnexpectedTokenError"
       /\ parsed.error.expected = parsed.required
       /\ parsed.error.actual = parsed.p.peekToken.type

\* the Lexer has read past the last character of its input
Exhausted(l) == l.position >= Len(l.input)

EofToken == newToken(TokenType.Eof, <<>>)

\* C19: once the Lexer has consumed every character of its input, each call
\* of getNextToken returns the Eof token with the empty literal, and the
\* Lexer stays at the end of the input.
EofForever ==
  [][(driver = "lexer" /\ pc = "tokens" /\ Exhausted(lexer))
       => /\ Len(tokens') = Len(tokens) + 1
          /\ tokens'[Len(tokens')].token = EofToken
          /\ Exhausted(lexer')]_vars

\* a Lexer of a text that has tokens has returned them and then Eof three times
EofForeverWitness ==
  /\ driver = "lexer" /\ pc = "tokens"
  /\ Len(tokens) > 3
  /\ tokens[Len(tokens) - 3].token.type # TokenType.Eof
  /\ \A i \in (Len(tokens) - 2)..Len(tokens) : tokens[i].token = EofToken

\* the types of the tokens that are keywords, identifiers, integers, string
\* literals, operators or punctuation
RecognizedTypes ==
  {TokenType[name] : name \in DOMAIN TokenType} \ {TokenType.Illegal, TokenType.Eof}

\* the Lexer has just returned its first Eof, at the end of a text made only
\* of tokens of the recognized types (every string literal closed) and
\* whitespace
LexedRecognized ==
  /\ driver = "lexer" /\ pc = "tokens"
  /\ Len(tokens) > 0
  /\ tokens[Len(tokens)].token.type = TokenType.Eof
  /\ \A i \in 1..(Len(tokens) - 1) : tokens[i].token.type \in RecognizedTypes
  /\ Exhausted(lexer)
  /\ Len(SelectSeq(input, LAMBDA ch : ch = Quote)) % 2 = 0

Literal(token) == token.literal
QuotedLiteral(token) ==
  IF token.type = TokenType.String THEN <<Quote>> \o token.literal \o <<Quote>>
  ELSE token.literal

\* the literals of the tokens from the i-th on, each after the whitespace that
\* was skipped before it; with quoted, a string literal is put back between
\* its quotation marks
RECURSIVE Reassembled(_, _, _)
Reassembled(calls, i, quoted) ==
  IF i > Len(calls) THEN <<>>
  ELSE calls[i].whitespace
       \o (IF quoted THEN QuotedLiteral(calls[i].token) ELSE Literal(calls[i].token))
       \o Reassembled(calls, i + 1, quoted)

Children(node) ==
  CASE node.type \in {"Program", "BlockStatement"} -> node.statements
    [] node.type = "ExpressionStatement" -> <<node.expression>>
    [] node.type = "LetStatement" -> <<node.name, node.value>>
    [] node.type = "ReturnStatement" -> <<node.returnValue>>
    [] node.type = "ArrayLiteral" -> node.elements
    [] node.type = "CallExpression" -> <<node.function>> \o node.arguments
    [] node.type = "FunctionLiteral" -> node.parameters \o <<node.body>>
    [] node.type = "HashLiteral" ->
         [i \in 1..(2 * Len(node.pairs)) |-> node.pairs[(i + 1) \div 2][2 - (i % 2)]]
    [] node.type = "IfExpression" ->
         <<node.condition, node.consequence>>
         \o (IF node.alternative.type # "null" THEN <<node.alternative>> ELSE <<>>)
    [] node.type = "IndexExpression" -> <<node.left, node.index>>
    [] node.type = "PrefixExpression" -> <<node.right>>
    [] node.type = "InfixExpression" -> <<node.left, node.right>>
    [] OTHER -> <<>>

\* print returns a string for the node and for every node under it
RECURSIVE PrintsStrings(_)
PrintsStrings(node) ==
  /\ print(node).type = "string"
  /\ \A i \in 1..Len(Children(node)) : PrintsStrings(Children(node)[i])

\* C21: print is total.  For the Program the Parser returned, print has
\* returned a string, and it returns a string for every node of the Program.
PrintIsTotal ==
  (driver = "parser" /\ pc = "printed")
    => /\ printed[Len(printed)].type = "string"
       /\ PrintsStrings(parsed.node)

\* the types of the tokens of a text, up to its first Eof
RECURSIVE TokenTypesFrom(_)
TokenTypesFrom(lx) ==
  LET returned == getNextToken(lx)
  IN  IF returned.token.type = TokenType.Eof THEN {}
      ELSE {returned.token.type} \cup TokenTypesFrom(returned.lexer)
TokenTypesOf(text) == TokenTypesFrom(NewLexer(text))

CallStatement(statement) ==
  statement.type = "ExpressionStatement" /\ statement.expression.type = "CallExpression"

\* C23: a return ends only the call it is executed in.  When a call that is
\* a statement of a block or of the program has produced its value, and that
\* value is no Error, the block or program goes on with its next statement.
ReturnEndsOnlyCallee ==
  [][((Returning("evalBlockStatement") \/ Returning("evalProgram"))
        /\ Top.i < Len(Top.statements)
        /\ CallStatement(Top.statements[Top.i])
        /\ ~isError(ctl.val))
       => ctl' = Eval(Top.statements[Top.i + 1], Top.env)]_vars

(* ---- blocks and parameters ---- *)
\* the tokens of a text, up to its first Eof
RECURSIVE TokensFrom(_)
TokensFrom(lx) ==
  LET returned == getNextToken(lx)
  IN  IF returned.token.type = TokenType.Eof THEN <<>>
      ELSE <<returned.token>> \o TokensFrom(returned.lexer)
TokensOf(text) == TokensFrom(NewLexer(text))

\* how many tokens of the type the text has
Count(text, type) == Len(SelectSeq(TokensOf(text), LAMBDA token : token.type = type))

\* C24: a `{` without its closing `}` before the end of input makes
\* parseProgram throw.  So a text for which parseProgram returns a Program
\* has a closing `}` for every `{`.
UnclosedBlockThrows ==
  (ParseDone /\ parsed.ok)
    => Count(input, TokenType.LBrace) = Count(input, TokenType.RBrace)

\* the tokens from the i-th on, up to the first `)`, are identifiers separated
\* by commas
RECURSIVE IdentifierList(_, _)
IdentifierList(ts, i) ==
  IF i > Len(ts) THEN FALSE
  ELSE IF ts[i].type = TokenType.RParen THEN TRUE
  ELSE /\ ts[i].type \in {TokenType.Ident, TokenType.Comma}
       /\ IdentifierList(ts, i + 1)

\* C25: every parameter of a parsed FunctionLiteral comes from an identifier
\* token.  So in a text for which parseProgram returns a Program, the tokens
\* between `fn (` and the next `)` are identifiers and commas only.
ParametersAreIdentifiers ==
  (ParseDone /\ parsed.ok)
    => LET ts == TokensOf(input)
       IN  \A i \in 1..(Len(ts) - 1) :
             (ts[i].type = TokenType.Function /\ ts[i + 1].type = TokenType.LParen)
               => IdentifierList(ts, i + 2)

(* ---- the Environment chain ---- *)
\* following `outer` from the Environment reaches one without outer in at
\* most steps steps
RECURSIVE ChainEnds(_, _)
ChainEnds(env, steps) ==
  \/ heap[env].outer = NoOuter
  \/ /\ steps > 0
     /\ heap[env].outer \in 1..Len(heap)
     /\ ChainEnds(heap[env].outer, steps - 1)

\* C26: the Environment chain is acyclic and finite.  From every Environment
\* allocated so far, following `outer` reaches an Environment without outer,
\* passing through no Environment twice.
EnvironmentChainAcyclic ==
  \A env \in 1..Len(heap) : ChainEnds(env, Len(heap) - 1)

\* a call is being evaluated in an Environment whose outer has an outer: a
\* function made inside a call has been called
EnvironmentChainAcyclicWitness ==
  /\ ctl.mode = "eval"
  /\ heap[ctl.env].outer # NoOuter
  /\ heap[heap[ctl.env].outer].outer # NoOuter
  /\ \E i \in 1..Len(stack) : stack[i].fn = "applyFunction"

(* ---- Errors are never stored ---- *)
\* no Error among the objects
NoError(objs) == \A i \in 1..Len(objs) : ~isError(objs[i])

\* no Error is bound to a name, held as an array element, held as a key or
\* value of a hash being built or just built, kept among the values
\* evalExpressions has collected, or among the arguments of a call
NoErrorStored ==
  /\ \A env \in 1..Len(heap) : \A name \in DOMAIN heap[env].store :
        ~isError(heap[env].store[name])
  /\ \A ref \in 1..Len(arrays) : NoError(arrays[ref])
  /\ \A i \in 1..Len(stack) :
        /\ stack[i].fn \in {"evalHashLiteral.key", "evalHashLiteral.value"}
             => \A k \in 1..Len(stack[i].pairs) :
                  ~isError(stack[i].pairs[k].key) /\ ~isError(stack[i].pairs[k].value)
        /\ stack[i].fn = "evalHashLiteral.value" => ~isError(stack[i].key)
        /\ stack[i].fn = "evalExpressions" => NoError(stack[i].result)
        /\ stack[i].fn = "applyFunction" => NoError(stack[i].args)
  /\ (ctl.mode = "ret" /\ ctl.val.type = "Hash")
       => \A k \in 1..Len(ctl.val.pairs) :
            ~isError(ctl.val.pairs[k].key) /\ ~isError(ctl.val.pairs[k].value)
  \* the array evalExpressions returns is [error] alone or holds no Error
  /\ (ctl.mode = "ret" /\ ctl.val.type = "array")
       => (NoError(ctl.val.items) \/ Propagating(ctl.val))

\* C27: no Error value is ever stored or passed on.  After every step no
\* Error is bound in an Environment, held in an array or a hash, or among the
\* arguments of a call; and an Error returned to any waiting activation is
\* returned by it to its own caller, up to the result of evaluate.
ErrorsNeverStored ==
  [][/\ NoErrorStored'
     /\ (ctl.mode = "ret" /\ stack # <<>> /\ Propagating(ctl.val))
          => /\ ctl'.mode = "ret" /\ Propagating(ctl'.val)
             /\ PropagatedError(ctl'.val) = PropagatedError(ctl.val)
             /\ Len(stack') = Len(stack) - 1]_vars

\* evaluate has returned an Error produced inside a function call, after
\* names were bound and an array was built
ErrorsNeverStoredWitness ==
  /\ Evaluated /\ isError(ctl.val)
  /\ Len(heap) >= 2
  /\ \E env \in 1..Len(heap) : DOMAIN heap[env].store # {}
  /\ Len(arrays) >= 1

(* ---- hash keys ---- *)
\* the two keys have the same runtime type and equal values
SameKey(a, b) == a.type = b.type /\ a.value = b.value

\* the [key, value] entries of pairs, in order
KeyValues(pairs) == [k \in 1..Len(pairs) |-> <<pairs[k].key, pairs[k].value>>]

\* the entries after key is given value: the entry of the same key is
\* replaced where it stands, and without one a new entry is added last
StoredByTypeAndValue(entries, key, value) ==
  IF \E k \in 1..Len(entries) : SameKey(entries[k][1], key)
  THEN [k \in 1..Len(entries) |->
          IF SameKey(entries[k][1], key) THEN <<key, value>> ELSE entries[k]]
  ELSE Append(entries, <<key, value>>)

EofOnlyAtEnd ==
  [][(driver = "lexer" /\ pc = "tokens" /\ Len(tokens') = Len(tokens) + 1)
       => /\ tokens'[Len(tokens')].token.type = TokenType.Eof
               => Exhausted(skipWhitespace(lexer))
          /\ (Len(tokens) > 0 /\ tokens[Len(tokens)].token.type = TokenType.Eof)
               => tokens'[Len(tokens')].token.type = TokenType.Eof]_vars

\* C29: parseProgram terminates on every input: every iteration of the
\* program loop, the block loop, the loop of parseExpression, the
\* expression-list loop and the hash-pair loop consumes at least one token
\* or throws, so that the call made on a new Parser returns a Program or
\* throws a ParseError
ParseProgramTerminates ==
  [][(driver = "parser" /\ pc = "parse")
       => /\ pc' = "done"
          /\ parsed'.ok \/ parsed'.error.type = "ParseError"]_vars

\* parseProgram returned the three statements of a text that runs every loop
ParseProgramTerminatesWitness ==
  /\ ParseDone /\ parsed.ok /\ input = LoopsText
  /\ Len(parsed.node.statements) = 3
  /\ parsed.p.currentToken.type = TokenType.Eof
====
